---------------------------- MODULE Spec2Model ----------------------------
(***************************************************************************)
(* A model of the async-consul client: the options projection              *)
(* (common.rs), the response metadata extraction (common.rs), the request  *)
(* builder / executor / response parser (http_client.rs) and the catalog   *)
(* calls get_service_nodes / watch_service_nodes (catalog.rs).             *)
(*                                                                         *)
(* Strings are sequences of one-character strings, so that formatting and  *)
(* parsing are computed, not assumed.  A u64 is four 16-bit limbs, least   *)
(* significant first, because the checker's integers are narrower than 64  *)
(* bits.                                                                   *)
(***************************************************************************)
EXTENDS Integers, Sequences, FiniteSets, TLC

(***************************************************************************)
(* Option<T>                                                               *)
(***************************************************************************)
None == [some |-> FALSE]
Some(x) == [some |-> TRUE, val |-> x]
IsSome(o) == o.some

(***************************************************************************)
(* Result<T, E>                                                            *)
(***************************************************************************)
Ok(x) == [ok |-> TRUE, val |-> x]
Err(e) == [ok |-> FALSE, err |-> e]

(***************************************************************************)
(* Sequence helpers                                                        *)
(***************************************************************************)
Range(s) == {s[i] : i \in DOMAIN s}

RECURSIVE Join(_, _)
\* [String]::join(sep)
Join(parts, sep) ==
    IF parts = <<>> THEN <<>>
    ELSE IF Len(parts) = 1 THEN parts[1]
    ELSE parts[1] \o sep \o Join(Tail(parts), sep)

\* the values a key has among a sequence of (key, value) pairs, in order
ValuesOf(pairs, k) == SelectSeq(pairs, LAMBDA p : p[1] = k)
Keys(pairs) == {pairs[i][1] : i \in DOMAIN pairs}

(***************************************************************************)
(* Characters.  "<LF>" stands for the byte 0x0A, "<80>" for a byte >= 0x80. *)
(***************************************************************************)
DigitChars == <<"0", "1", "2", "3", "4", "5", "6", "7", "8", "9">>
Digits == Range(DigitChars)
DigitVal(c) == (CHOOSE i \in 1..10 : DigitChars[i] = c) - 1

UpperChars == <<"H", "I", "T", "R", "U", "E">>
LowerChars == <<"h", "i", "t", "r", "u", "e">>

\* b >= 32 && b < 127 || b == '\t'  (HeaderValue::to_str)
IsVisibleAscii(c) == c \notin {"<LF>", "<80>"}
\* b >= 32 && b != 127 || b == '\t'  (HeaderValue::from_bytes)
IsValidHeaderByte(c) == c # "<LF>"

\* char::to_lowercase on the characters the model uses
LowerChar(c) ==
    IF \E i \in DOMAIN UpperChars : UpperChars[i] = c
    THEN LowerChars[CHOOSE i \in DOMAIN UpperChars : UpperChars[i] = c]
    ELSE c
\* str::to_lowercase
ToLowercase(s) == [i \in DOMAIN s |-> LowerChar(s[i])]

(***************************************************************************)
(* u64 as four 16-bit limbs, least significant first                       *)
(***************************************************************************)
LimbBase == 65536
U64Zero == <<0, 0, 0, 0>>

\* x * 10 + d, with the carry out of the top limb
MulAdd10(x, d) ==
    LET t1 == x[1] * 10 + d
        t2 == x[2] * 10 + (t1 \div LimbBase)
        t3 == x[3] * 10 + (t2 \div LimbBase)
        t4 == x[4] * 10 + (t3 \div LimbBase)
    IN  [val |-> <<t1 % LimbBase, t2 % LimbBase, t3 % LimbBase, t4 % LimbBase>>,
         carry |-> t4 \div LimbBase]

\* x divided by 10: quotient and remainder
DivMod10(x) ==
    LET c4 == x[4]
        c3 == (c4 % 10) * LimbBase + x[3]
        c2 == (c3 % 10) * LimbBase + x[2]
        c1 == (c2 % 10) * LimbBase + x[1]
    IN  [quot |-> <<c1 \div 10, c2 \div 10, c3 \div 10, c4 \div 10>>,
         rem |-> c1 % 10]

U64OfNat(n) == <<n % LimbBase, n \div LimbBase, 0, 0>>

RECURSIVE ParseDigits(_, _)
\* the digit loop of u64::from_str: checked_mul(10) then checked_add(digit)
ParseDigits(s, acc) ==
    IF s = <<>> THEN Ok(acc)
    ELSE IF s[1] \notin Digits THEN Err("InvalidDigit")
    ELSE LET r == MulAdd10(acc, DigitVal(s[1]))
         IN  IF r.carry > 0 THEN Err("PosOverflow")
             ELSE ParseDigits(Tail(s), r.val)

\* str::parse::<u64>(): empty is an error, a lone sign is an error, one
\* leading '+' is accepted, '-' is not a digit of an unsigned type
ParseU64(s) ==
    IF s = <<>> THEN Err("Empty")
    ELSE IF Len(s) = 1 /\ s[1] \in {"+", "-"} THEN Err("InvalidDigit")
    ELSE IF s[1] = "+" THEN ParseDigits(Tail(s), U64Zero)
    ELSE ParseDigits(s, U64Zero)

RECURSIVE U64Digits(_)
U64Digits(x) ==
    IF x = U64Zero THEN <<>>
    ELSE LET r == DivMod10(x)
         IN  Append(U64Digits(r.quot), DigitChars[r.rem + 1])

\* u64::to_string()
U64ToString(x) == IF x = U64Zero THEN <<"0">> ELSE U64Digits(x)

RECURSIVE NatDigits(_)
NatDigits(n) ==
    IF n = 0 THEN <<>> ELSE Append(NatDigits(n \div 10), DigitChars[(n % 10) + 1])

\* to_string() / Display of a small unsigned integer (u8, u64 seconds, u128 millis)
NatToString(n) == IF n = 0 THEN <<"0">> ELSE NatDigits(n)

(***************************************************************************)
(* std::time::Duration: whole seconds and the nanoseconds below a second   *)
(***************************************************************************)
NanosPerMilli == 1000000
MillisPerSec == 1000
Duration(secs, nanos) == [secs |-> secs, nanos |-> nanos]
DurationZero == Duration(0, 0)
as_secs(d) == d.secs
as_millis(d) == d.secs * MillisPerSec + (d.nanos \div NanosPerMilli)
from_secs(s) == Duration(s, 0)

(***************************************************************************)
(* String literals used by the projections                                 *)
(***************************************************************************)
S_1 == <<"1">>
S_true == <<"t", "r", "u", "e">>
S_hit == <<"h", "i", "t">>
S_ms == <<"m", "s">>
S_colon == <<":">>
S_comma_sp == <<",", " ">>
S_max_age_eq == <<"m", "a", "x", "-", "a", "g", "e", "=">>
S_stale_if_error_eq ==
    <<"s", "t", "a", "l", "e", "-", "i", "f", "-", "e", "r", "r", "o", "r", "=">>

(***************************************************************************)
(* common.rs: Consistency, Blocking, QueryOptions                          *)
(***************************************************************************)
Consistent == "Consistent"
Stale == "Stale"

Index(n) == [kind |-> "Index", idx |-> n]
Hash(h) == [kind |-> "Hash", hash |-> h]

\* QueryOptions::default(): every Option is None, every bool is false
QueryOptionsDefault ==
    [namespace |-> None, datacenter |-> None, token |-> None,
     consistency |-> None, blocking |-> None, blocking_timeout |-> None,
     use_cache |-> FALSE, cache_max_age |-> None,
     cache_stale_if_error |-> None, near |-> None, node_meta |-> None,
     tag |-> None, filtering |-> None, relay_factor |-> None,
     local_only |-> FALSE, connect |-> FALSE, timeout |-> None]

\* a HashMap<String, String> is a sequence of (key, value) entries with distinct
\* keys; the sequence is the order in which iter() visits them
RECURSIVE NodeMetaPairs(_)
NodeMetaPairs(entries) ==
    IF entries = <<>> THEN <<>>
    ELSE <<<<"node-meta[]", entries[1][1] \o S_colon \o entries[1][2]>>>>
         \o NodeMetaPairs(Tail(entries))

\* a slip: the consistency level is not looked at
CacheEligible_IgnoresConsistency(o) == o.use_cache

\* use_cache && consistency.map(|v| v != Consistent).unwrap_or(true)
CacheEligible(o) ==
    o.use_cache /\ (IF IsSome(o.consistency) THEN o.consistency.val # Consistent ELSE TRUE)

\* a slip: the hash is pushed under `index` as well
BlockingPairs_HashAlsoIndex(o) ==
    IF IsSome(o.blocking)
    THEN (IF o.blocking.val.kind = "Index"
          THEN <<<<"index", U64ToString(o.blocking.val.idx)>>>>
          ELSE <<<<"index", o.blocking.val.hash>>, <<"hash", o.blocking.val.hash>>>>)
         \o (IF IsSome(o.blocking_timeout)
             THEN <<<<"wait", NatToString(as_millis(o.blocking_timeout.val)) \o S_ms>>>>
             ELSE <<>>)
    ELSE <<>>

\* a slip: the wait is pushed outside the `if let Some(blocking)`
BlockingPairs_WaitAlways(o) ==
    (IF IsSome(o.blocking)
     THEN (IF o.blocking.val.kind = "Index"
           THEN <<<<"index", U64ToString(o.blocking.val.idx)>>>>
           ELSE <<<<"hash", o.blocking.val.hash>>>>)
     ELSE <<>>)
    \o (IF IsSome(o.blocking_timeout)
        THEN <<<<"wait", NatToString(as_millis(o.blocking_timeout.val)) \o S_ms>>>>
        ELSE <<>>)

BlockingPairs(o) ==
    IF IsSome(o.blocking)
    THEN (IF o.blocking.val.kind = "Index"
          THEN <<<<"index", U64ToString(o.blocking.val.idx)>>>>
          ELSE <<<<"hash", o.blocking.val.hash>>>>)
         \o (IF IsSome(o.blocking_timeout)
             THEN <<<<"wait", NatToString(as_millis(o.blocking_timeout.val)) \o S_ms>>>>
             ELSE <<>>)
    ELSE <<>>

CachedPairs(o) == IF CacheEligible(o) THEN <<<<"cached", S_1>>>> ELSE <<>>

\* impl CollectQueryParameters for QueryOptions
QueryOptions_query_pairs(o) ==
    (IF IsSome(o.namespace) THEN <<<<"ns", o.namespace.val>>>> ELSE <<>>)
    \o (IF IsSome(o.datacenter) THEN <<<<"dc", o.datacenter.val>>>> ELSE <<>>)
    \o (IF IsSome(o.consistency)
        THEN (IF o.consistency.val = Consistent
              THEN <<<<"consistent", S_1>>>> ELSE <<<<"stale", S_1>>>>)
        ELSE <<>>)
    \o BlockingPairs(o)
    \o (IF IsSome(o.near) THEN <<<<"near", o.near.val>>>> ELSE <<>>)
    \o (IF IsSome(o.node_meta) THEN NodeMetaPairs(o.node_meta.val) ELSE <<>>)
    \o (IF IsSome(o.tag) THEN <<<<"tag", o.tag.val>>>> ELSE <<>>)
    \o (IF IsSome(o.filtering) THEN <<<<"filter", o.filtering.val>>>> ELSE <<>>)
    \o (IF IsSome(o.relay_factor)
        THEN <<<<"relay-factor", NatToString(o.relay_factor.val)>>>> ELSE <<>>)
    \o (IF o.local_only THEN <<<<"local-only", S_true>>>> ELSE <<>>)
    \o (IF o.connect THEN <<<<"connect", S_true>>>> ELSE <<>>)
    \o CachedPairs(o)

CacheControlParts(o) ==
    (IF IsSome(o.cache_max_age) /\ as_secs(o.cache_max_age.val) > 0
     THEN <<S_max_age_eq \o NatToString(as_secs(o.cache_max_age.val))>> ELSE <<>>)
    \o (IF IsSome(o.cache_stale_if_error) /\ as_secs(o.cache_stale_if_error.val) > 0
        THEN <<S_stale_if_error_eq \o NatToString(as_secs(o.cache_stale_if_error.val))>>
        ELSE <<>>)

\* the same condition, written out again where the headers are collected
CacheHeadersEligible(o) ==
    o.use_cache /\ (IF IsSome(o.consistency) THEN o.consistency.val # Consistent ELSE TRUE)

CacheControlPairs(o) ==
    IF CacheHeadersEligible(o) /\ CacheControlParts(o) # <<>>
    THEN <<<<"Cache-Control", Join(CacheControlParts(o), S_comma_sp)>>>>
    ELSE <<>>

\* impl CollectRequestHeaders for QueryOptions
QueryOptions_header_pairs(o) ==
    (IF IsSome(o.token) THEN <<<<"X-Consul-Token", o.token.val>>>> ELSE <<>>)
    \o CacheControlPairs(o)

\* a slip: the blocking timeout is taken when there is one
QueryOptions_as_timeout_PrefersWait(o) ==
    IF IsSome(o.blocking_timeout) THEN o.blocking_timeout ELSE o.timeout

\* impl AsTimeout for QueryOptions
QueryOptions_as_timeout(o) == o.timeout

(***************************************************************************)
(* common.rs: WriteOptions                                                 *)
(***************************************************************************)
\* WriteOptions::default()
WriteOptionsDefault ==
    [namespace |-> None, datacenter |-> None, token |-> None,
     relay_factor |-> None, timeout |-> None]

\* a slip: the relay factor is left out
WriteOptions_query_pairs_NoRelayFactor(w) ==
    (IF IsSome(w.namespace) THEN <<<<"ns", w.namespace.val>>>> ELSE <<>>)
    \o (IF IsSome(w.datacenter) THEN <<<<"dc", w.datacenter.val>>>> ELSE <<>>)

\* impl CollectQueryParameters for WriteOptions
WriteOptions_query_pairs(w) ==
    (IF IsSome(w.namespace) THEN <<<<"ns", w.namespace.val>>>> ELSE <<>>)
    \o (IF IsSome(w.datacenter) THEN <<<<"dc", w.datacenter.val>>>> ELSE <<>>)
    \o (IF IsSome(w.relay_factor)
        THEN <<<<"relay-factor", NatToString(w.relay_factor.val)>>>> ELSE <<>>)

\* impl CollectRequestHeaders for WriteOptions
WriteOptions_header_pairs(w) ==
    IF IsSome(w.token) THEN <<<<"X-Consul-Token", w.token.val>>>> ELSE <<>>

\* impl AsTimeout for WriteOptions
WriteOptions_as_timeout(w) == w.timeout

(***************************************************************************)
(* common.rs: the impls for Option<T>, T one of the two option types       *)
(***************************************************************************)
\* which type T is: a WriteOptions has no consistency field
IsWriteOptions(o) == "consistency" \notin DOMAIN o

\* impl CollectQueryParameters / CollectRequestHeaders / AsTimeout for Option<T>
Option_query_pairs(options) ==
    IF ~IsSome(options) THEN <<>>
    ELSE IF IsWriteOptions(options.val) THEN WriteOptions_query_pairs(options.val)
    ELSE QueryOptions_query_pairs(options.val)
Option_header_pairs(options) ==
    IF ~IsSome(options) THEN <<>>
    ELSE IF IsWriteOptions(options.val) THEN WriteOptions_header_pairs(options.val)
    ELSE QueryOptions_header_pairs(options.val)

\* a slip: no options are given a timeout of their own
Option_as_timeout_NoneIsZero(options) ==
    IF ~IsSome(options) THEN Some(DurationZero)
    ELSE IF IsWriteOptions(options.val) THEN WriteOptions_as_timeout(options.val)
    ELSE QueryOptions_as_timeout(options.val)

Option_as_timeout(options) ==
    IF ~IsSome(options) THEN None
    ELSE IF IsWriteOptions(options.val) THEN WriteOptions_as_timeout(options.val)
    ELSE QueryOptions_as_timeout(options.val)

(***************************************************************************)
(* common.rs: QueryMetadata                                                *)
(***************************************************************************)
ConsumedHeaders ==
    <<"X-Consul-Index", "X-Consul-ContentHash", "X-Consul-KnownLeader",
      "X-Consul-Translate-Addresses", "X-Cache", "Age">>

\* QueryMetadata::default()
QueryMetadataDefault ==
    [last_index |-> None, last_content_hash |-> None, known_leader |-> FALSE,
     last_contact |-> DurationZero, addr_translate_enabled |-> FALSE,
     cache_hit |-> FALSE, cache_age |-> None]

\* HeaderValue::to_str(): only visible ASCII reads as a string
to_str(v) ==
    IF \A i \in DOMAIN v : IsVisibleAscii(v[i]) THEN Ok(v) ELSE Err("ToStrError")

\* A response's headers are a function from header name to Option<value>:
\* headers.get(name).  Each step of from_headers takes the metadata and the
\* error list so far and gives both back.
FH_Index(headers, st) ==
    LET raw == headers["X-Consul-Index"] IN
    IF ~IsSome(raw) THEN st
    ELSE IF ~to_str(raw.val).ok
         THEN [st EXCEPT !.errors = Append(@, "X-Consul-Index")]
    ELSE LET r == ParseU64(to_str(raw.val).val) IN
         IF r.ok THEN [st EXCEPT !.meta.last_index = Some(r.val)]
         ELSE [st EXCEPT !.errors = Append(@, "X-Consul-Index")]

FH_ContentHash(headers, st) ==
    LET raw == headers["X-Consul-ContentHash"] IN
    IF ~IsSome(raw) THEN st
    ELSE IF to_str(raw.val).ok
         THEN [st EXCEPT !.meta.last_content_hash = Some(to_str(raw.val).val)]
    ELSE [st EXCEPT !.errors = Append(@, "X-Consul-ContentHash")]

\* a slip: the value is lower-cased before it is compared
FH_KnownLeader_IgnoresCase(headers, st) ==
    LET raw == headers["X-Consul-KnownLeader"] IN
    IF ~IsSome(raw) THEN st
    ELSE IF to_str(raw.val).ok
         THEN (IF ToLowercase(to_str(raw.val).val) = S_true
               THEN [st EXCEPT !.meta.known_leader = TRUE] ELSE st)
    ELSE [st EXCEPT !.errors = Append(@, "X-Consul-KnownLeader")]

FH_KnownLeader(headers, st) ==
    LET raw == headers["X-Consul-KnownLeader"] IN
    IF ~IsSome(raw) THEN st
    ELSE IF to_str(raw.val).ok
         THEN (IF to_str(raw.val).val = S_true
               THEN [st EXCEPT !.meta.known_leader = TRUE] ELSE st)
    ELSE [st EXCEPT !.errors = Append(@, "X-Consul-KnownLeader")]

FH_Translate(headers, st) ==
    LET raw == headers["X-Consul-Translate-Addresses"] IN
    IF ~IsSome(raw) THEN st
    ELSE IF to_str(raw.val).ok
         THEN (IF to_str(raw.val).val = S_true
               THEN [st EXCEPT !.meta.addr_translate_enabled = TRUE] ELSE st)
    ELSE [st EXCEPT !.errors = Append(@, "X-Consul-Translate-Addresses")]

\* a slip: the value is compared as it is, without to_lowercase()
FH_Cache_CaseSensitive(headers, st) ==
    LET raw == headers["X-Cache"] IN
    IF ~IsSome(raw) THEN st
    ELSE IF to_str(raw.val).ok
         THEN (IF to_str(raw.val).val = S_hit
               THEN [st EXCEPT !.meta.cache_hit = TRUE] ELSE st)
    ELSE [st EXCEPT !.errors = Append(@, "X-Cache")]

FH_Cache(headers, st) ==
    LET raw == headers["X-Cache"] IN
    IF ~IsSome(raw) THEN st
    ELSE IF to_str(raw.val).ok
         THEN (IF ToLowercase(to_str(raw.val).val) = S_hit
               THEN [st EXCEPT !.meta.cache_hit = TRUE] ELSE st)
    ELSE [st EXCEPT !.errors = Append(@, "X-Cache")]

\* a slip of copy and paste: the parsed age is stored as the index
FH_Age_WritesIndex(headers, st) ==
    LET raw == headers["Age"] IN
    IF ~IsSome(raw) THEN st
    ELSE IF ~to_str(raw.val).ok THEN [st EXCEPT !.errors = Append(@, "Age")]
    ELSE LET r == ParseU64(to_str(raw.val).val) IN
         IF r.ok THEN [st EXCEPT !.meta.last_index = Some(r.val)]
         ELSE [st EXCEPT !.errors = Append(@, "Age")]

FH_Age(headers, st) ==
    LET raw == headers["Age"] IN
    IF ~IsSome(raw) THEN st
    ELSE IF ~to_str(raw.val).ok THEN [st EXCEPT !.errors = Append(@, "Age")]
    ELSE LET r == ParseU64(to_str(raw.val).val) IN
         IF r.ok THEN [st EXCEPT !.meta.cache_age = Some(from_secs(r.val))]
         ELSE [st EXCEPT !.errors = Append(@, "Age")]

\* the error list and the metadata once every consumed header has been looked at
FH_Collect(headers) ==
    FH_Age(headers,
      FH_Cache(headers,
        FH_Translate(headers,
          FH_KnownLeader(headers,
            FH_ContentHash(headers,
              FH_Index(headers, [meta |-> QueryMetadataDefault, errors |-> <<>>]))))))

\* a slip: the first bad header ends the extraction (fail-fast)
from_headers_FailFast(headers) ==
    LET st == FH_Collect(headers) IN
    IF st.errors # <<>> THEN Err([kind |-> "InvalidHeaders", headers |-> <<st.errors[1]>>])
    ELSE Ok(st.meta)

\* QueryMetadata::from_headers
from_headers(headers) ==
    LET st == FH_Collect(headers) IN
    IF st.errors # <<>> THEN Err([kind |-> "InvalidHeaders", headers |-> st.errors])
    ELSE Ok(st.meta)

\* a slip: the index is looked at before the content hash
as_blocking_IndexFirst(meta) ==
    IF IsSome(meta.last_index) THEN Some(Index(meta.last_index.val))
    ELSE IF IsSome(meta.last_content_hash) THEN Some(Hash(meta.last_content_hash.val))
    ELSE None

\* QueryMetadata::as_blocking
as_blocking(meta) ==
    IF IsSome(meta.last_content_hash) THEN Some(Hash(meta.last_content_hash.val))
    ELSE IF IsSome(meta.last_index) THEN Some(Index(meta.last_index.val))
    ELSE None

(***************************************************************************)
(* http_client.rs                                                          *)
(***************************************************************************)
\* what a call can come to: a value, an error value, or a panic (an expect()
\* on an Err or a None unwinds the calling task)
Panic(msg) == [ok |-> FALSE, panic |-> msg]
IsPanic(r) == ~r.ok /\ "panic" \in DOMAIN r
IsErr(r) == ~r.ok /\ "err" \in DOMAIN r

\* HashMap::insert on a map kept as a sequence of (key, value) with distinct keys
MapInsert(m, k, v) ==
    IF \E i \in DOMAIN m : m[i][1] = k
    THEN [i \in DOMAIN m |-> IF m[i][1] = k THEN <<k, v>> ELSE m[i]]
    ELSE Append(m, <<k, v>>)

RECURSIVE MapInsertAll(_, _)
\* collect::<HashMap>() and the upsert loop: insert the pairs in order
MapInsertAll(m, pairs) ==
    IF pairs = <<>> THEN m
    ELSE MapInsertAll(MapInsert(m, pairs[1][1], pairs[1][2]), Tail(pairs))

\* The query of the built URL.  The order of a merged query is the iteration
\* order of a HashMap, which is unspecified: nothing may read it.
MergeQuery(base_query, pairs) ==
    IF pairs # <<>>
    THEN MapInsertAll(MapInsertAll(<<>>, base_query), pairs)
    ELSE base_query

\* http::Method::from_bytes: a non-empty token
IsValidMethod(method) == method # ""

\* HeaderValue::from_bytes
IsValidHeaderValue(v) == \A i \in DOMAIN v : IsValidHeaderByte(v[i])

\* HttpClient::build_request, with body = ().  base_uri is
\* [hier, path, query]: whether the URL can be a base, its path segments and
\* its decoded query pairs.
build_request(base_uri, method, url_parts, options) ==
    IF ~base_uri.hier THEN Panic("URL not in suitable format for extending")
    ELSE
    LET pairs == Option_query_pairs(options)
        headers == Option_header_pairs(options)
    IN  IF ~IsValidMethod(method) THEN Err([kind |-> "InvalidRequest"])
        ELSE IF \E i \in DOMAIN headers : ~IsValidHeaderValue(headers[i][2])
        THEN Panic("should be impossible for us to use an invalid header value")
        ELSE Ok([method |-> method,
                 path |-> base_uri.path \o url_parts,
                 query |-> MergeQuery(base_uri.query, pairs),
                 headers |-> headers])

\* a slip: the elapsed timer is reported as a transport error
run_request_ElapsedAsRequestError(event, response, options) ==
    IF IsSome(Option_as_timeout(options))
    THEN (IF event \in {"Elapsed", "HyperError"} THEN Err([kind |-> "RequestError"])
          ELSE Ok(response))
    ELSE (IF event = "HyperError" THEN Err([kind |-> "RequestError"])
          ELSE Ok(response))

\* HttpClient::run_request, once the awaited race is decided.  event is what
\* ended the await: "Elapsed" (the timer, which exists only when a timeout is
\* set), "HyperError" (the transport failed) or "Response".
run_request(event, response, options) ==
    IF IsSome(Option_as_timeout(options))
    THEN (IF event = "Elapsed" THEN Err([kind |-> "RequestTimedOut"])
          ELSE IF event = "HyperError" THEN Err([kind |-> "RequestError"])
          ELSE Ok(response))
    ELSE (IF event = "HyperError" THEN Err([kind |-> "RequestError"])
          ELSE Ok(response))

\* StatusCode::is_success
is_success(status) == status >= 200 /\ status < 300

\* a slip: the headers are read before the status is looked at
parse_query_response_head_HeadersFirst(response) ==
    IF ~from_headers(response.headers).ok THEN from_headers(response.headers)
    ELSE IF ~is_success(response.status)
    THEN Err([kind |-> "UnexpectedStatus", status |-> response.status])
    ELSE from_headers(response.headers)

\* HttpClient::parse_query_response up to the await of the body
parse_query_response_head(response) ==
    IF ~is_success(response.status)
    THEN Err([kind |-> "UnexpectedStatus", status |-> response.status])
    ELSE from_headers(response.headers)

\* HttpClient::parse_query_response from the await of the body on.  body is
\* [read, json]: whether to_bytes succeeded, and what serde_json makes of the
\* bytes (Ok(payload) or an error)
parse_query_response_body(body, meta) ==
    IF ~body.read THEN Err([kind |-> "BodyConsumeFailure"])
    ELSE IF ~body.json.ok THEN Err([kind |-> "InvalidPayload"])
    ELSE Ok(<<body.json.val, meta>>)

\* From<ResponseError> for Error
ResponseErrorInto(e) == [kind |-> "ResponseError", inner |-> e]

(***************************************************************************)
(* catalog.rs: get_service_nodes and watch_service_nodes as a state machine *)
(***************************************************************************)
VARIABLES
    base_uri,   \* HttpClient.base_uri
    call,       \* "get" (get_service_nodes) or "watch" (watch_service_nodes)
    args,       \* the options argument the caller passed: Option<QueryOptions>
    options,    \* the local `options` of the call
    blocking,   \* the local `blocking` of watch_service_nodes
    pc,         \* where the call is
    request,    \* the request handed to the transport, once there is one
    response,   \* status and headers of the last response received
    meta,       \* the local `meta` of parse_query_response, while the body is read
    out,        \* what the caller has been given, in order
    pulls,      \* how many times the caller has polled (the stream's next())
    sent,       \* every request handed to the transport, with the options it
                \* was built from, in order
    race        \* how the last run_request ended

vars ==
    <<base_uri, call, args, options, blocking, pc, request, response, meta,
      out, pulls, sent, race>>

\* the bound on the consumer's polls
MaxPulls == 3

S_web == <<"w", "e", "b">>
\* &["v1", "catalog", "service", service]
ServicePath(service) == <<<<"v", "1">>, <<"c", "a", "t", "a", "l", "o", "g">>,
                          <<"s", "e", "r", "v", "i", "c", "e">>, service>>

\* the method string each call passes to build_request
MethodOf(c) == IF c = "watch" THEN "GET" ELSE "get"

\* watch_service_nodes: options.or_else(|| Some(QueryOptions::default()))
OrDefault(o) == IF IsSome(o) THEN o ELSE Some(QueryOptionsDefault)

\* a slip: the override is applied only when a condition is carried
OverrideBlocking_OnlySome(o, b) ==
    IF IsSome(b) THEN Some([o.val EXCEPT !.blocking = b]) ELSE o

\* a slip: the options of an iteration are made afresh around the condition
OverrideBlocking_FromDefault(o, b) == Some([QueryOptionsDefault EXCEPT !.blocking = b])

\* watch_service_nodes: opts.blocking = blocking.take()
OverrideBlocking(o, b) == Some([o.val EXCEPT !.blocking = b])

OkItem(parsed, m) == [kind |-> "Ok", parsed |-> parsed, meta |-> m]
ErrItem(e) == [kind |-> "Err", err |-> e]

\* the state after construction: Client::new(base), then one catalog call
InitWith(Bases, Calls, Args) ==
    /\ base_uri \in Bases
    /\ call \in Calls
    /\ args \in Args
    /\ options = IF call = "watch" THEN OrDefault(args) ELSE args
    /\ blocking = None
    /\ pc = "created"
    /\ request = None
    /\ response = None
    /\ meta = None
    /\ out = <<>>
    /\ pulls = 0
    /\ sent = <<>>
    /\ race = None

\* `?` on an Err: get_service_nodes returns it; try_stream! yields it and ends
Fail(e) ==
    /\ out' = Append(out, ErrItem(e))
    /\ pc' = IF call = "watch" THEN "finished" ELSE "returned"

\* a slip: the next request is issued as soon as the last item is out,
\* without waiting for the consumer to poll
PollNext_RunsAhead ==
    /\ pc \in {"created", "suspended"}
    /\ Len(sent) < MaxPulls
    /\ LET opts == IF call = "watch" THEN OverrideBlocking(options, blocking)
                   ELSE options
           built == build_request(base_uri, MethodOf(call), ServicePath(S_web), opts)
       IN  /\ options' = opts
           /\ blocking' = None
           /\ pulls' = pulls
           /\ IF built.ok
              THEN /\ request' = Some(built.val)
                   /\ sent' = Append(sent, [request |-> built.val, options |-> opts])
                   /\ pc' = "inflight"
                   /\ out' = out
              ELSE /\ UNCHANGED <<request, sent>>
                   /\ IF IsPanic(built)
                      THEN pc' = "panicked" /\ out' = out
                      ELSE Fail(built.err)
    /\ UNCHANGED <<base_uri, call, args, response, meta, race>>

\* The caller polls.  The call runs to its first await: in a watch the
\* blocking override, then build_request, then the transport call of run_request.
PollNext ==
    /\ pc \in {"created", "suspended"}
    /\ pulls < MaxPulls
    /\ LET opts == IF call = "watch" THEN OverrideBlocking(options, blocking)
                   ELSE options
           built == build_request(base_uri, MethodOf(call), ServicePath(S_web), opts)
       IN  /\ options' = opts
           /\ blocking' = None
           /\ pulls' = pulls + 1
           /\ IF built.ok
              THEN /\ request' = Some(built.val)
                   /\ sent' = Append(sent, [request |-> built.val, options |-> opts])
                   /\ pc' = "inflight"
                   /\ out' = out
              ELSE /\ UNCHANGED <<request, sent>>
                   /\ IF IsPanic(built)
                      THEN pc' = "panicked" /\ out' = out
                      ELSE Fail(built.err)
    /\ UNCHANGED <<base_uri, call, args, response, meta, race>>

RaceRecord(event, result) ==
    Some([event |-> event, timeout |-> Option_as_timeout(options), result |-> result])

\* the transport call fails
TransportFails ==
    /\ pc = "inflight"
    /\ LET r == run_request("HyperError", None, options)
       IN  /\ race' = RaceRecord("HyperError", r)
           /\ Fail(r.err)
    /\ UNCHANGED <<base_uri, call, args, options, blocking, request, response,
                   meta, pulls, sent>>

\* `if let Some(dur) = timeout_dur`: only then is there a timer
TimerArmed(o) == IsSome(Option_as_timeout(o))

\* the timer of run_request fires before the transport has answered
TimeoutElapses ==
    /\ pc = "inflight"
    /\ TimerArmed(options)
    /\ LET r == run_request("Elapsed", None, options)
       IN  /\ race' = RaceRecord("Elapsed", r)
           /\ IF r.ok THEN UNCHANGED <<pc, out>> ELSE Fail(r.err)
    /\ UNCHANGED <<base_uri, call, args, options, blocking, request, response,
                   meta, pulls, sent>>

\* the transport answers with a status and headers: run_request returns the
\* response and parse_query_response runs to the await of the body
RecvResponse(Responses) ==
    /\ pc = "inflight"
    /\ \E resp \in Responses :
         LET r == run_request("Response", resp, options)
         IN  /\ race' = RaceRecord("Response", r)
             /\ IF ~r.ok THEN Fail(r.err) /\ UNCHANGED <<response, meta>>
                ELSE LET head == parse_query_response_head(r.val)
                     IN  /\ response' = Some(r.val)
                         /\ IF head.ok
                            THEN /\ meta' = Some(head.val)
                                 /\ pc' = "body"
                                 /\ out' = out
                            ELSE /\ meta' = meta
                                 /\ Fail(ResponseErrorInto(head.err))
    /\ UNCHANGED <<base_uri, call, args, options, blocking, request, pulls, sent>>

\* a slip: the generator returns after its first yield instead of looping
AfterItem_NoLoop(c) == IF c = "watch" THEN "finished" ELSE "returned"

\* where the call is once it has handed out an item: a watch is suspended at
\* its `yield` inside `loop`, get_service_nodes has returned
AfterItem(c) == IF c = "watch" THEN "suspended" ELSE "returned"

\* the body has been read, or reading it failed: the rest of
\* parse_query_response, then `blocking = meta.as_blocking(); yield (parsed, meta)`
\* in a watch, `Ok((parsed, meta))` in get_service_nodes
RecvBody(Bodies) ==
    /\ pc = "body"
    /\ \E body \in Bodies :
         LET r == parse_query_response_body(body, meta.val)
         IN  IF r.ok
             THEN /\ out' = Append(out, OkItem(r.val[1], r.val[2]))
                  /\ blocking' = IF call = "watch" THEN as_blocking(r.val[2])
                                 ELSE blocking
                  /\ pc' = AfterItem(call)
             ELSE /\ Fail(ResponseErrorInto(r.err))
                  /\ blocking' = blocking
    /\ meta' = None
    /\ UNCHANGED <<base_uri, call, args, options, request, response, pulls,
                   sent, race>>

\* the caller polls a stream whose generator has returned: the stream is over
PollAfterEnd ==
    /\ pc \in {"finished", "done"}
    /\ pulls < MaxPulls
    /\ pulls' = pulls + 1
    /\ pc' = "done"
    /\ UNCHANGED <<base_uri, call, args, options, blocking, request, response,
                   meta, out, sent, race>>

(***************************************************************************)
(* The inputs the specifications draw from                                 *)
(***************************************************************************)
S_east == <<"e", "a", "s", "t">>
S_west == <<"w", "e", "s", "t">>
S_tok == <<"t", "o", "k">>
S_tok_lf == <<"t", "<LF>", "k">>
S_42 == <<"4", "2">>
S_deadbeef == <<"d", "e", "a", "d", "b", "e", "e", "f">>
S_abc == <<"a", "b", "c">>
S_not_a_number == <<"n", "o", "t", "-", "a", "-", "n", "u", "m", "b", "e", "r">>
S_u64_max == <<"1", "8", "4", "4", "6", "7", "4", "4", "0", "7", "3", "7",
               "0", "9", "5", "5", "1", "6", "1", "5">>
S_u64_over == <<"1", "8", "4", "4", "6", "7", "4", "4", "0", "7", "3", "7",
                "0", "9", "5", "5", "1", "6", "1", "6">>

\* "http://consul:8500", "http://consul:8500/?dc=east", and a URL that
\* Url::parse accepts but that cannot be a base ("mailto:consul")
BasePlain == [hier |-> TRUE, path |-> <<>>, query |-> <<>>]
BaseDcEast == [hier |-> TRUE, path |-> <<>>, query |-> <<<<"dc", S_east>>>>]
BaseOpaque == [hier |-> FALSE, path |-> <<>>, query |-> <<>>]
\* "http://proxy/consul": a base endpoint with a path of its own
S_consul == <<"c", "o", "n", "s", "u", "l">>
BasePrefixed == [hier |-> TRUE, path |-> <<S_consul>>, query |-> <<>>]

Headers(idx, hash, leader, translate, cache, age) ==
    [n \in Range(ConsumedHeaders) |->
        CASE n = "X-Consul-Index" -> idx
          [] n = "X-Consul-ContentHash" -> hash
          [] n = "X-Consul-KnownLeader" -> leader
          [] n = "X-Consul-Translate-Addresses" -> translate
          [] n = "X-Cache" -> cache
          [] n = "Age" -> age]

NoHeaders == Headers(None, None, None, None, None, None)

\* the caller's options in the call specifications
WatchArgs ==
    { None,
      Some(QueryOptionsDefault),
      Some([QueryOptionsDefault EXCEPT !.timeout = Some(Duration(5, 0))]),
      Some([QueryOptionsDefault EXCEPT !.token = Some(S_tok_lf)]),
      Some([QueryOptionsDefault EXCEPT
              !.datacenter = Some(S_west),
              !.token = Some(S_tok),
              !.blocking = Some(Index(U64OfNat(7))),
              !.blocking_timeout = Some(Duration(1, 500000000)),
              !.timeout = Some(Duration(5, 0))]) }

\* the responses of the transport in the call specifications
WatchHeaders ==
    { NoHeaders,
      [NoHeaders EXCEPT !["X-Consul-Index"] = Some(<<"1">>)],
      [NoHeaders EXCEPT !["X-Consul-Index"] = Some(<<"2">>)],
      [NoHeaders EXCEPT !["X-Consul-ContentHash"] = Some(S_deadbeef)],
      [NoHeaders EXCEPT !["X-Consul-ContentHash"] = Some(S_deadbeef),
                        !["X-Consul-Index"] = Some(S_42)],
      [NoHeaders EXCEPT !["X-Consul-Index"] = Some(S_not_a_number)] }

WatchResponses ==
    {[status |-> 200, headers |-> h] : h \in WatchHeaders}
    \cup {[status |-> 503, headers |-> NoHeaders]}

\* how reading and decoding a body can go
Bodies ==
    { [read |-> FALSE, json |-> Err("unread")],
      [read |-> TRUE, json |-> Err("invalid JSON")],
      [read |-> TRUE, json |-> Ok("nodes")] }

(***************************************************************************)
(* The calls: one client, one call of get_service_nodes or                 *)
(* watch_service_nodes, a transport that answers as it likes               *)
(***************************************************************************)
Init ==
    InitWith({BasePlain, BaseDcEast, BasePrefixed, BaseOpaque}, {"get", "watch"},
             WatchArgs)

Next ==
    \/ PollNext
    \/ TransportFails
    \/ TimeoutElapses
    \/ RecvResponse(WatchResponses)
    \/ RecvBody(Bodies)
    \/ PollAfterEnd

Spec == Init /\ [][Next]_vars

(***************************************************************************)
(* The request builder on its own: one call, polled once, over a wide      *)
(* range of options and base endpoints                                     *)
(***************************************************************************)
S_a == <<"a">>
S_b == <<"b">>
S_x == <<"x">>
S_2 == <<"2">>

\* "http://consul:8500/?x=1&x=2&dc=east"
BaseRepeated ==
    [hier |-> TRUE, path |-> <<>>,
     query |-> <<<<"x", S_1>>, <<"x", S_2>>, <<"dc", S_east>>>>]

\* the fields that project one pair each, none of them set or all of them set
RestUnset == QueryOptionsDefault
RestSet ==
    [QueryOptionsDefault EXCEPT
        !.namespace = Some(S_a), !.token = Some(S_tok), !.near = Some(S_b),
        !.tag = Some(S_x), !.filtering = Some(S_abc), !.relay_factor = Some(3),
        !.local_only = TRUE, !.connect = TRUE, !.timeout = Some(Duration(5, 0))]

BuildOptions ==
    { [rest EXCEPT
         !.datacenter = dc, !.consistency = cons, !.blocking = blk,
         !.blocking_timeout = bt, !.use_cache = uc, !.cache_max_age = cma,
         !.cache_stale_if_error = cse, !.node_meta = nm] :
      rest \in {RestUnset, RestSet},
      dc \in {None, Some(S_west)},
      cons \in {None, Some(Consistent), Some(Stale)},
      blk \in {None, Some(Index(U64OfNat(42))),
               Some(Index(<<65535, 65535, 65535, 65535>>)), Some(Hash(S_abc))},
      bt \in {None, Some(Duration(1, 500000000))},
      uc \in BOOLEAN,
      cma \in {None, Some(Duration(0, 0)), Some(Duration(0, 500000000)),
               Some(Duration(30, 0))},
      cse \in {None, Some(Duration(0, 0)), Some(Duration(2, 0))},
      nm \in {None, Some(<<>>), Some(<<<<S_a, S_1>>>>),
              Some(<<<<S_a, S_1>>, <<S_b, S_2>>>>),
              Some(<<<<S_b, S_2>>, <<S_a, S_1>>>>)} }

BuildArgs == {None} \cup {Some(o) : o \in BuildOptions}

InitBuild == InitWith({BasePlain, BaseDcEast, BaseRepeated}, {"get", "watch"}, BuildArgs)

NextBuild == PollNext

SpecBuild == InitBuild /\ [][NextBuild]_vars

(***************************************************************************)
(* The metadata extraction on its own: one call, one response, over a wide *)
(* range of response headers                                               *)
(***************************************************************************)
S_7 == <<"7">>
S_007 == <<"0", "0", "7">>
S_plus42 == <<"+", "4", "2">>
S_minus1 == <<"-", "1">>
S_empty == <<>>
S_True == <<"T", "r", "u", "e">>
S_false == <<"f", "a", "l", "s", "e">>
S_HIT == <<"H", "I", "T">>
S_Hit == <<"H", "i", "t">>
S_miss == <<"m", "i", "s", "s">>
\* a value with a byte that is not visible ASCII
S_obs == <<"<80>">>

IndexValues ==
    {None, Some(S_1), Some(S_42), Some(S_plus42), Some(S_007), Some(S_minus1),
     Some(S_not_a_number), Some(S_empty), Some(S_u64_max), Some(S_u64_over), Some(S_obs)}
HashValues == {None, Some(S_deadbeef), Some(S_empty), Some(S_obs)}
LeaderValues == {None, Some(S_true), Some(S_True), Some(S_1), Some(S_obs)}
TranslateValues == {None, Some(S_true), Some(S_True), Some(S_false), Some(S_obs)}
CacheValues ==
    {None, Some(S_hit), Some(S_HIT), Some(S_Hit), Some(S_true), Some(S_True),
     Some(S_miss), Some(S_obs)}
AgeValues == {None, Some(S_7), Some(S_not_a_number), Some(S_obs)}

MetaHeaders ==
    { Headers(idx, hash, leader, translate, cache, age) :
        idx \in IndexValues, hash \in HashValues, leader \in LeaderValues,
        translate \in TranslateValues, cache \in CacheValues, age \in AgeValues }

MetaResponses ==
    {[status |-> 200, headers |-> h] : h \in MetaHeaders}
    \cup {[status |-> 503, headers |-> NoHeaders]}

InitMeta == InitWith({BasePlain}, {"get", "watch"}, {None})

FirstPoll == pc = "created" /\ PollNext

NextMeta ==
    \/ FirstPoll
    \/ RecvResponse(MetaResponses)
    \/ RecvBody({[read |-> TRUE, json |-> Ok("nodes")]})

SpecMeta == InitMeta /\ [][NextMeta]_vars

(***************************************************************************)
(* The builder and the executor on write options: build_request and        *)
(* run_request are generic in the option type, and a write operation hands *)
(* them an Option<WriteOptions>                                            *)
(***************************************************************************)
S_kv == <<"k", "v">>

WriteOptionsValues ==
    { [namespace |-> ns, datacenter |-> dc, token |-> tok, relay_factor |-> rf,
       timeout |-> t] :
      ns \in {None, Some(S_a)},
      dc \in {None, Some(S_west)},
      tok \in {None, Some(S_tok)},
      rf \in {None, Some(0), Some(3), Some(255)},
      t \in {None, Some(Duration(0, 0)), Some(Duration(5, 0))} }

WriteArgs == {None} \cup {Some(w) : w \in WriteOptionsValues}

InitWrite == InitWith({BasePlain, BaseDcEast}, {"write"}, WriteArgs)

\* build_request(method, url_parts, options, ()) and then the transport call
\* of run_request(request, options), with the options as they were given
WriteCall(Methods) ==
    /\ pc = "created"
    /\ pulls < MaxPulls
    /\ \E method \in Methods :
         LET built == build_request(base_uri, method, <<<<"v", "1">>, S_kv>>, options)
         IN  /\ pulls' = pulls + 1
             /\ IF built.ok
                THEN /\ request' = Some(built.val)
                     /\ sent' = Append(sent, [request |-> built.val, options |-> options])
                     /\ pc' = "inflight"
                     /\ out' = out
                ELSE /\ UNCHANGED <<request, sent>>
                     /\ IF IsPanic(built)
                        THEN pc' = "panicked" /\ out' = out
                        ELSE Fail(built.err)
    /\ UNCHANGED <<base_uri, call, args, options, blocking, response, meta, race>>

NextWrite ==
    \/ WriteCall({"PUT", "DELETE"})
    \/ TransportFails
    \/ TimeoutElapses

SpecWrite == InitWrite /\ [][NextWrite]_vars

(***************************************************************************)
(* The calls with a consumer that may drop the stream of a watch.  The     *)
(* stream owns the generator and the generator owns the future of the      *)
(* request it awaits: dropping the stream drops them all.                  *)
(***************************************************************************)
\* a slip: a response in flight at the drop is still turned into an item
DropStream_DeliversInFlight ==
    /\ call = "watch"
    /\ pc \in {"created", "inflight", "body", "suspended", "finished", "done"}
    /\ pc' = "dropped"
    /\ request' = None
    /\ out' = IF pc \in {"inflight", "body"}
              THEN Append(out, OkItem("nodes", QueryMetadataDefault)) ELSE out
    /\ UNCHANGED <<base_uri, call, args, options, blocking, response, meta,
                   pulls, sent, race>>

\* the consumer drops the stream: before the first poll, while its poll
\* awaits a request in flight or the body, between items, or after the end.
\* Nothing of the call outlives the stream (no task is spawned, nothing is
\* buffered), so nothing of it is left to run.
DropStream ==
    /\ call = "watch"
    /\ pc \in {"created", "inflight", "body", "suspended", "finished", "done"}
    /\ pc' = "dropped"
    /\ request' = None
    /\ UNCHANGED <<base_uri, call, args, options, blocking, response, meta,
                   out, pulls, sent, race>>

NextDrop == Next \/ DropStream

SpecDrop == Init /\ [][NextDrop]_vars

(***************************************************************************)
(* The calls again, on one endpoint and with caller's options that set     *)
(* every field                                                             *)
(***************************************************************************)
AllFieldsSet ==
    [namespace |-> Some(S_abc), datacenter |-> Some(S_east),
     token |-> Some(S_tok), consistency |-> Some(Stale),
     blocking |-> Some(Hash(S_abc)), blocking_timeout |-> Some(Duration(10, 0)),
     use_cache |-> TRUE, cache_max_age |-> Some(Duration(30, 0)),
     cache_stale_if_error |-> Some(Duration(2, 0)), near |-> Some(S_west),
     node_meta |-> Some(<<<<S_abc, S_42>>>>), tag |-> Some(S_deadbeef),
     filtering |-> Some(S_abc), relay_factor |-> Some(3),
     local_only |-> TRUE, connect |-> TRUE, timeout |-> Some(Duration(5, 0))]

FrameArgs ==
    { None,
      Some(AllFieldsSet),
      Some([AllFieldsSet EXCEPT !.blocking = Some(Index(U64OfNat(7)))]),
      Some([AllFieldsSet EXCEPT !.blocking = None, !.consistency = None]) }

InitFrame == InitWith({BasePlain, BaseDcEast}, {"get", "watch"}, FrameArgs)

SpecFrame == InitFrame /\ [][Next]_vars

(***************************************************************************)
(* The calls on endpoints whose own query has a blocking parameter         *)
(* ("http://consul:8500/?index=5", "http://consul:8500/?hash=x"), with     *)
(* options with and without a blocking condition, a blocking timeout and   *)
(* an overall timeout                                                      *)
(***************************************************************************)
S_5 == <<"5">>
BaseIndexed == [hier |-> TRUE, path |-> <<>>, query |-> <<<<"index", S_5>>>>]
BaseHashed == [hier |-> TRUE, path |-> <<>>, query |-> <<<<"hash", S_x>>>>]

CondArgs ==
    { None } \cup
    { Some([QueryOptionsDefault EXCEPT
              !.blocking = blk, !.blocking_timeout = bt, !.timeout = t]) :
        blk \in {None, Some(Index(U64OfNat(7))), Some(Hash(S_abc))},
        bt \in {None, Some(Duration(1, 500000000)), Some(Duration(0, 1999999))},
        t \in {None, Some(Duration(5, 0))} }

InitCond ==
    InitWith({BasePlain, BaseIndexed, BaseHashed}, {"get", "watch"}, CondArgs)

SpecCond == InitCond /\ [][Next]_vars

(***************************************************************************)
(* The response parser: the calls without options on one endpoint, with    *)
(* responses of every kind of status and of headers                        *)
(***************************************************************************)
ParseStatuses == {200, 204, 299, 300, 404, 503}

ParseHeaders ==
    { NoHeaders,
      [NoHeaders EXCEPT !["X-Consul-Index"] = Some(S_42)],
      [NoHeaders EXCEPT !["X-Consul-Index"] = Some(S_not_a_number)],
      [NoHeaders EXCEPT !["X-Consul-Index"] = Some(S_u64_over),
                        !["Age"] = Some(S_not_a_number)] }

ParseResponses == {[status |-> st, headers |-> h] : st \in ParseStatuses, h \in ParseHeaders}

InitParse == InitWith({BasePlain}, {"get", "watch"}, {None})

NextParse ==
    \/ PollNext
    \/ RecvResponse(ParseResponses)
    \/ RecvBody(Bodies)
    \/ PollAfterEnd

SpecParse == InitParse /\ [][NextParse]_vars

(***************************************************************************)
(* Two calls made on one client and run concurrently.  The client is       *)
(* shared (Arc<HttpClient>: the endpoint and the transport); every call    *)
(* has locals of its own, so each variable but base_uri is here a function *)
(* from the call's name to what it is for that call.                       *)
(***************************************************************************)
Calls == {"a", "b"}

ConcArgs ==
    { None,
      Some([AllFieldsSet EXCEPT !.blocking = None]),
      Some([QueryOptionsDefault EXCEPT
              !.datacenter = Some(S_west),
              !.blocking = Some(Index(U64OfNat(7)))]) }

ConcResponses ==
    { [status |-> 200, headers |-> [NoHeaders EXCEPT !["X-Consul-Index"] = Some(S_42)]],
      [status |-> 200,
       headers |-> [NoHeaders EXCEPT !["X-Consul-ContentHash"] = Some(S_deadbeef)]],
      [status |-> 503, headers |-> NoHeaders] }

InitConc ==
    /\ base_uri = BasePlain
    /\ call \in [Calls -> {"get", "watch"}]
    /\ args \in [Calls -> ConcArgs]
    /\ options = [c \in Calls |-> IF call[c] = "watch" THEN OrDefault(args[c])
                                  ELSE args[c]]
    /\ blocking = [c \in Calls |-> None]
    /\ pc = [c \in Calls |-> "created"]
    /\ request = [c \in Calls |-> None]
    /\ response = [c \in Calls |-> None]
    /\ meta = [c \in Calls |-> None]
    /\ out = [c \in Calls |-> <<>>]
    /\ pulls = [c \in Calls |-> 0]
    /\ sent = [c \in Calls |-> <<>>]
    /\ race = [c \in Calls |-> None]

\* a slip: the carried condition is kept in one place for all the calls
StoreBlocking_Shared(b, c, v) == [d \in DOMAIN b |-> v]

\* `blocking` is a local of the call: an assignment changes this call's only
StoreBlocking(b, c, v) == [b EXCEPT ![c] = v]

\* `?` on an Err in call c
ConcFail(c, e) ==
    /\ out' = [out EXCEPT ![c] = Append(@, ErrItem(e))]
    /\ pc' = [pc EXCEPT ![c] = IF call[c] = "watch" THEN "finished" ELSE "returned"]

\* call c is polled: the blocking override, build_request, the transport call
ConcPoll(c) ==
    /\ pc[c] \in {"created", "suspended"}
    /\ pulls[c] < MaxPulls
    /\ LET opts == IF call[c] = "watch" THEN OverrideBlocking(options[c], blocking[c])
                   ELSE options[c]
           built == build_request(base_uri, MethodOf(call[c]), ServicePath(S_web), opts)
       IN  /\ options' = [options EXCEPT ![c] = opts]
           /\ blocking' = IF call[c] = "watch" THEN StoreBlocking(blocking, c, None)
                           ELSE blocking
           /\ pulls' = [pulls EXCEPT ![c] = @ + 1]
           /\ IF built.ok
              THEN /\ request' = [request EXCEPT ![c] = Some(built.val)]
                   /\ sent' = [sent EXCEPT
                                 ![c] = Append(@, [request |-> built.val, options |-> opts])]
                   /\ pc' = [pc EXCEPT ![c] = "inflight"]
                   /\ out' = out
              ELSE /\ UNCHANGED <<request, sent>>
                   /\ IF IsPanic(built)
                      THEN pc' = [pc EXCEPT ![c] = "panicked"] /\ out' = out
                      ELSE ConcFail(c, built.err)
    /\ UNCHANGED <<base_uri, call, args, response, meta, race>>

\* the transport call of c fails, or the timeout of c's options elapses first
ConcTransportFails(c) ==
    /\ pc[c] = "inflight"
    /\ \E event \in {"HyperError"} \cup
                     (IF TimerArmed(options[c]) THEN {"Elapsed"} ELSE {}) :
         LET r == run_request(event, None, options[c])
         IN  ConcFail(c, r.err)
    /\ UNCHANGED <<base_uri, call, args, options, blocking, request, response,
                   meta, pulls, sent, race>>

\* the transport answers c: run_request returns, parse_query_response runs
\* to the await of the body
ConcRecvResponse(c) ==
    /\ pc[c] = "inflight"
    /\ \E resp \in ConcResponses :
         LET r == run_request("Response", resp, options[c])
             head == parse_query_response_head(r.val)
         IN  /\ response' = [response EXCEPT ![c] = Some(r.val)]
             /\ IF head.ok
                THEN /\ meta' = [meta EXCEPT ![c] = Some(head.val)]
                     /\ pc' = [pc EXCEPT ![c] = "body"]
                     /\ out' = out
                ELSE /\ meta' = meta
                     /\ ConcFail(c, ResponseErrorInto(head.err))
    /\ UNCHANGED <<base_uri, call, args, options, blocking, request, pulls, sent,
                   race>>

\* the body of c's response has been read and decoded: the carried condition
\* is set and the item yielded, or the one-shot call returns
ConcRecvBody(c) ==
    /\ pc[c] = "body"
    /\ LET r == parse_query_response_body([read |-> TRUE, json |-> Ok("nodes")],
                                          meta[c].val)
       IN  /\ out' = [out EXCEPT ![c] = Append(@, OkItem(r.val[1], r.val[2]))]
           /\ blocking' = IF call[c] = "watch"
                           THEN StoreBlocking(blocking, c, as_blocking(r.val[2]))
                           ELSE blocking
           /\ pc' = [pc EXCEPT ![c] = AfterItem(call[c])]
    /\ meta' = [meta EXCEPT ![c] = None]
    /\ UNCHANGED <<base_uri, call, args, options, request, response, pulls,
                   sent, race>>

\* the stream of c is polled after its generator has returned
ConcPollAfterEnd(c) ==
    /\ pc[c] \in {"finished", "done"}
    /\ pulls[c] < MaxPulls
    /\ pulls' = [pulls EXCEPT ![c] = @ + 1]
    /\ pc' = [pc EXCEPT ![c] = "done"]
    /\ UNCHANGED <<base_uri, call, args, options, blocking, request, response,
                   meta, out, sent, race>>

NextConc ==
    \E c \in Calls :
        \/ ConcPoll(c)
        \/ ConcTransportFails(c)
        \/ ConcRecvResponse(c)
        \/ ConcRecvBody(c)
        \/ ConcPollAfterEnd(c)

SpecConc == InitConc /\ [][NextConc]_vars

(***************************************************************************)
(* Properties                                                              *)
(***************************************************************************)
Last(s) == s[Len(s)]
OkItems(items) == SelectSeq(items, LAMBDA it : it.kind = "Ok")
ErrItems(items) == SelectSeq(items, LAMBDA it : it.kind = "Err")

\* the watch has had an iteration fail: the generator has left its loop
WatchFailed == call = "watch" /\ pc \in {"finished", "done", "panicked"}

\* C1: in watch_service_nodes the first iteration that fails, at whatever
\* stage (build, execute, status, headers, body, decode), gives the consumer
\* exactly one error item, as the last item, after one Ok item per earlier
\* request; nothing was emitted for the failing response.
C1_FailureEmitsOneError ==
    WatchFailed =>
        /\ Len(ErrItems(out)) = 1
        /\ Last(out).kind = "Err"
        /\ Len(OkItems(out)) = Len(out) - 1

\* C1, the part the code keeps: an iteration that fails with an error value
\* (not a panic) emits that one error last, and from then on nothing is
\* emitted and nothing is sent.
C1_ErrValueTerminates ==
    (call = "watch" /\ pc \in {"finished", "done"}) =>
        /\ Len(ErrItems(out)) = 1
        /\ Last(out).kind = "Err"
        /\ Len(OkItems(out)) = Len(out) - 1
        /\ Len(sent) \in {Len(out) - 1, Len(out)}

C1_NothingAfterError ==
    [][(call = "watch" /\ pc \in {"finished", "done"}) =>
          (out' = out /\ sent' = sent /\ pc' = "done")]_vars


\* the blocking condition a sequence of projected query pairs carries
CondOfPairs(pairs) ==
    IF "index" \in Keys(pairs)
    THEN Some(Index(ParseU64(ValuesOf(pairs, "index")[1][2]).val))
    ELSE IF "hash" \in Keys(pairs) THEN Some(Hash(ValuesOf(pairs, "hash")[1][2]))
    ELSE None

\* the pairs with key index or hash
CondPairs(pairs) == SelectSeq(pairs, LAMBDA p : p[1] \in {"index", "hash"})

\* the condition the k-th request of a watch has to carry: none on the first,
\* then the one the metadata of the previous item gives (hash before index)
ExpectedCond(k) ==
    IF k = 1 THEN None
    ELSE LET m == out[k - 1].meta IN
         IF IsSome(m.last_content_hash) THEN Some(Hash(m.last_content_hash.val))
         ELSE IF IsSome(m.last_index) THEN Some(Index(m.last_index.val))
         ELSE None

\* C2: in watch_service_nodes the first request carries no blocking
\* condition, and request k+1 carries exactly the condition derived from the
\* metadata of response k (the k-th item), whatever came before: the options
\* it is built from hold it, its projection holds it, and so does the query
\* of the request sent.
C2_CarriedCondition ==
    call = "watch" =>
        \A k \in 1..Len(sent) :
            LET o == sent[k].options.val
                q == QueryOptions_query_pairs(o)
            IN  /\ o.blocking = ExpectedCond(k)
                /\ CondOfPairs(q) = ExpectedCond(k)
                /\ CondPairs(sent[k].request.query) = CondPairs(q)
                /\ Len(CondPairs(q)) = IF IsSome(ExpectedCond(k)) THEN 1 ELSE 0

\* C2 witness: responses with index 1 then index 2 have produced requests
\* with conditions absent, Index(1), Index(2)
C2_Witness ==
    /\ call = "watch"
    /\ Len(sent) = 3
    /\ Len(out) >= 2
    /\ out[1].kind = "Ok" /\ out[1].meta.last_index = Some(U64OfNat(1))
    /\ out[2].kind = "Ok" /\ out[2].meta.last_index = Some(U64OfNat(2))
    /\ CondPairs(sent[1].request.query) = <<>>
    /\ CondPairs(sent[2].request.query) = <<<<"index", <<"1">>>>>>
    /\ CondPairs(sent[3].request.query) = <<<<"index", <<"2">>>>>>

\* C2, second case: a response without index and content hash after a
\* blocking request has made the next request non-blocking
C2_WitnessReset ==
    /\ call = "watch"
    /\ Len(sent) = 3
    /\ CondPairs(sent[2].request.query) # <<>>
    /\ CondPairs(sent[3].request.query) = <<>>


\* a watch has just yielded an item and computed its carried condition
JustYielded == call = "watch" /\ pc = "suspended" /\ out # <<>> /\ Last(out).kind = "Ok"


\* C3: as_blocking gives Hash(last_content_hash) whenever the content hash is
\* present, with or without an index, Index(last_index) when only the index
\* is present, and nothing when both are absent; e.g. headers
\* {X-Consul-ContentHash: deadbeef, X-Consul-Index: 42} give Hash(deadbeef)
\* and {X-Consul-Index: 42} alone gives Index(42).
C3_HashBeforeIndex ==
    JustYielded =>
        LET m == Last(out).meta
            h == response.val.headers
        IN  /\ IsSome(m.last_content_hash) =>
                 blocking = Some(Hash(m.last_content_hash.val))
            /\ (~IsSome(m.last_content_hash) /\ IsSome(m.last_index)) =>
                 blocking = Some(Index(m.last_index.val))
            /\ (~IsSome(m.last_content_hash) /\ ~IsSome(m.last_index)) =>
                 blocking = None
            /\ (h["X-Consul-ContentHash"] = Some(S_deadbeef)
                   /\ h["X-Consul-Index"] = Some(S_42)) =>
                 blocking = Some(Hash(S_deadbeef))
            /\ (h["X-Consul-ContentHash"] = None /\ h["X-Consul-Index"] = Some(S_42)) =>
                 blocking = Some(Index(<<42, 0, 0, 0>>))

\* C3 witness: both headers were present and the hash was carried
C3_Witness ==
    /\ JustYielded
    /\ response.val.headers["X-Consul-ContentHash"] = Some(S_deadbeef)
    /\ response.val.headers["X-Consul-Index"] = Some(S_42)
    /\ Last(out).meta.last_index = Some(<<42, 0, 0, 0>>)
    /\ blocking = Some(Hash(S_deadbeef))


(***************************************************************************)
(* The calls under a scheduler that runs what is ready: a consumer that    *)
(* keeps polling (up to MaxPulls), a transport whose call ends (with a     *)
(* response, a failure or the timeout) and a body whose read ends.         *)
(***************************************************************************)
AwaitEnds == TransportFails \/ TimeoutElapses \/ RecvResponse(WatchResponses)

FairSpec ==
    /\ Init /\ [][Next]_vars
    /\ WF_vars(PollNext)
    /\ WF_vars(PollAfterEnd)
    /\ WF_vars(AwaitEnds)
    /\ WF_vars(RecvBody(Bodies))

\* a poll of the watch is waiting for its item
WatchPending == call = "watch" /\ pc \in {"inflight", "body"}

\* C4: a watch is infinite on success.  Every poll that is waiting comes to
\* an item unless its iteration fails; after an item a consumer that polls
\* again (it may, up to MaxPulls) gets a further request sent, never the end
\* of the stream; and the stream is over only after an error item.
C4_InfiniteOnSuccess ==
    /\ WatchPending ~> ((call = "watch" /\ pc = "suspended") \/ WatchFailed)
    /\ (call = "watch" /\ pc = "suspended" /\ pulls < MaxPulls) ~> WatchPending
    /\ []((call = "watch" /\ pc \in {"finished", "done"})
            => (out # <<>> /\ Last(out).kind = "Err"))
    /\ [][(call = "watch" /\ pc = "suspended") => pc' \in {"suspended", "inflight"}]_vars

\* C4 witness: every request so far succeeded and the consumer has got an item
\* for each of three polls, the stream still open
C4_Witness ==
    /\ call = "watch"
    /\ pc = "suspended"
    /\ Len(out) = 3
    /\ \A i \in 1..3 : out[i].kind = "Ok"


\* the pairs and headers projected from the options request k was built from
ProjectedPairs(k) == Option_query_pairs(sent[k].options)
ProjectedHeaders(k) == Option_header_pairs(sent[k].options)

\* C5: the query carries `cached` and the headers carry `Cache-Control` only
\* if use_cache is set and consistency is absent or Stale; with consistency =
\* Consistent neither is projected, whatever use_cache and the cache ages
\* are; and projecting does not fail: the request is built.
C5_CacheOnlyWhenEligible ==
    /\ pulls >= 1 => Len(sent) >= 1
    /\ \A k \in 1..Len(sent) :
         LET req == sent[k].request
             cachedSent == "cached" \in Keys(req.query)
             ccSent == "Cache-Control" \in Keys(req.headers)
         IN  IF IsSome(sent[k].options)
             THEN LET o == sent[k].options.val IN
                  /\ (cachedSent \/ ccSent) =>
                        (o.use_cache /\ o.consistency \in {None, Some(Stale)})
                  /\ o.consistency = Some(Consistent) => (~cachedSent /\ ~ccSent)
             ELSE ~cachedSent /\ ~ccSent

\* C5 witness: a request was built from options with consistency =
\* Consistent, use_cache set and both cache ages positive
C5_Witness ==
    /\ Len(sent) = 1
    /\ IsSome(sent[1].options)
    /\ sent[1].options.val.consistency = Some(Consistent)
    /\ sent[1].options.val.use_cache
    /\ sent[1].options.val.cache_max_age = Some(Duration(30, 0))
    /\ sent[1].options.val.cache_stale_if_error = Some(Duration(2, 0))
    /\ "cached" \notin Keys(sent[1].request.query)
    /\ "Cache-Control" \notin Keys(sent[1].request.headers)

\* C6: with a blocking condition set the query carries exactly one of `index`
\* and `hash`: Index(n) gives one `index` whose value reads back as n and no
\* `hash`, Hash(h) gives one `hash` = h and no `index`; with no condition
\* neither key is there.
C6_IndexXorHash ==
    \A k \in 1..Len(sent) :
        LET q == sent[k].request.query
            idx == ValuesOf(q, "index")
            hsh == ValuesOf(q, "hash")
            b == IF IsSome(sent[k].options) THEN sent[k].options.val.blocking ELSE None
        IN  /\ (IsSome(b) /\ b.val.kind = "Index") =>
                 /\ Len(idx) = 1 /\ hsh = <<>>
                 /\ ParseU64(idx[1][2]) = Ok(b.val.idx)
            /\ (IsSome(b) /\ b.val.kind = "Hash") =>
                 /\ hsh = <<<<"hash", b.val.hash>>>> /\ idx = <<>>
            /\ ~IsSome(b) => (idx = <<>> /\ hsh = <<>>)
            /\ idx = SelectSeq(ProjectedPairs(k), LAMBDA p : p[1] = "index")
            /\ hsh = SelectSeq(ProjectedPairs(k), LAMBDA p : p[1] = "hash")

\* C6 witness: Hash("abc") was set and the request carries hash=abc, no index
C6_Witness ==
    /\ Len(sent) = 1
    /\ IsSome(sent[1].options)
    /\ sent[1].options.val.blocking = Some(Hash(S_abc))
    /\ ValuesOf(sent[1].request.query, "hash") = <<<<"hash", S_abc>>>>
    /\ "index" \notin Keys(sent[1].request.query)

\* C7: build_request merges with override: the request carries every pair the
\* options project, every pair of the base endpoint whose key the options do
\* not project, and each single-valued key of the options exactly once with
\* the options' value; when the options project nothing the base query is
\* unchanged.
C7_MergeOverride ==
    \A k \in 1..Len(sent) :
        LET P == base_uri.query
            Q == ProjectedPairs(k)
            q == sent[k].request.query
        IN  /\ \A i \in DOMAIN Q : Q[i] \in Range(q)
            /\ \A i \in DOMAIN P : P[i][1] \notin Keys(Q) => P[i] \in Range(q)
            /\ \A key \in Keys(Q) \ {"node-meta[]"} :
                 Len(ValuesOf(q, key)) = 1 /\ ValuesOf(q, key) = ValuesOf(Q, key)
            /\ Q = <<>> => q = P

\* C7, what the code does keep: each key the options project is carried
\* exactly once, with the value of the last projected pair of that key; each
\* base key they do not project is carried once, with the base's last value
\* for it, when they project anything, and the base query is unchanged when
\* they project nothing.
C7_LastWriterWins ==
    \A k \in 1..Len(sent) :
        LET P == base_uri.query
            Q == ProjectedPairs(k)
            q == sent[k].request.query
        IN  /\ \A key \in Keys(Q) :
                 ValuesOf(q, key) = <<Last(ValuesOf(Q, key))>>
            /\ Q # <<>> => \A key \in Keys(P) \ Keys(Q) :
                 ValuesOf(q, key) = <<Last(ValuesOf(P, key))>>
            /\ Q # <<>> => Keys(q) = Keys(P) \cup Keys(Q)
            /\ Q = <<>> => q = P


\* a 2xx response has been received: from_headers has run on its headers
HeadersSeen == IsSome(response) /\ response.val.status = 200

\* from_headers failed: the call ended with the malformed-headers error
HeadersFailed ==
    /\ out # <<>>
    /\ Last(out).kind = "Err"
    /\ Last(out).err.kind = "ResponseError"
    /\ Last(out).err.inner.kind = "InvalidHeaders"

\* the metadata from_headers returned, while the body is read or in the item
HeadersMeta == IF pc = "body" THEN meta.val ELSE Last(out).meta
HeadersOk == pc = "body" \/ (out # <<>> /\ Last(out).kind = "Ok")

RECURSIVE StripZeros(_)
StripZeros(d) == IF d # <<>> /\ d[1] = "0" THEN StripZeros(Tail(d)) ELSE d

RECURSIVE LexLeq(_, _)
\* a <= b for digit strings of the same length
LexLeq(a, b) ==
    IF a = <<>> THEN TRUE
    ELSE IF DigitVal(a[1]) < DigitVal(b[1]) THEN TRUE
    ELSE IF DigitVal(a[1]) > DigitVal(b[1]) THEN FALSE
    ELSE LexLeq(Tail(a), Tail(b))

\* the digits of v when v is an unsigned decimal integer (digits only, after
\* at most one leading '+'), leading zeros dropped
DecimalDigits(v) == StripZeros(IF v # <<>> /\ v[1] = "+" THEN Tail(v) ELSE v)

\* v is an unsigned decimal integer of at most 2^64 - 1
IsU64Decimal(v) ==
    LET d == IF v # <<>> /\ v[1] = "+" THEN Tail(v) ELSE v
    IN  /\ d # <<>>
        /\ \A i \in DOMAIN d : d[i] \in Digits
        /\ \/ Len(StripZeros(d)) < Len(S_u64_max)
           \/ Len(StripZeros(d)) = Len(S_u64_max) /\ LexLeq(StripZeros(d), S_u64_max)

IsAsciiText(v) == \A i \in DOMAIN v : v[i] # "<80>"

\* what a consumed header's value has to be to parse
Parsable(name, v) ==
    IF name \in {"X-Consul-Index", "Age"} THEN IsAsciiText(v) /\ IsU64Decimal(v)
    ELSE IsAsciiText(v)

\* the consumed headers that are present but do not parse
BadHeaders(h) == {n \in Range(ConsumedHeaders) : IsSome(h[n]) /\ ~Parsable(n, h[n].val)}

\* C8: from_headers is collect-all: it fails with the malformed-headers error
\* exactly when some consumed header is present but unparsable, and the error
\* names each such header once and no other; an X-Consul-Index or Age value
\* parses only if it is an unsigned integer of at most 2^64 - 1.
C8_CollectAll ==
    HeadersSeen =>
        LET h == response.val.headers IN
        /\ HeadersFailed <=> BadHeaders(h) # {}
        /\ ~HeadersFailed => HeadersOk
        /\ HeadersFailed =>
             LET errors == Last(out).err.inner.headers IN
             /\ Range(errors) = BadHeaders(h)
             /\ Len(errors) = Cardinality(BadHeaders(h))
        /\ HeadersOk =>
             /\ IsSome(HeadersMeta.last_index) => IsU64Decimal(h["X-Consul-Index"].val)
             /\ IsSome(HeadersMeta.cache_age) => IsU64Decimal(h["Age"].val)
        /\ (h = [NoHeaders EXCEPT !["X-Consul-Index"] = Some(S_not_a_number)]) =>
             (HeadersFailed /\ Last(out).err.inner.headers = <<"X-Consul-Index">>)

\* C8 witness: two headers were bad and the error names both
C8_Witness ==
    /\ HeadersSeen
    /\ response.val.headers =
         [NoHeaders EXCEPT !["X-Consul-Index"] = Some(S_u64_over),
                           !["Age"] = Some(S_not_a_number)]
    /\ HeadersFailed
    /\ Last(out).err.inner.headers = <<"X-Consul-Index", "Age">>

\* C9: an absent header is never an error and leaves its field at the
\* default: with no consumed header present the result is the default
\* metadata; and each field is decided by its own header alone: the index by
\* X-Consul-Index, the hash (verbatim) by X-Consul-ContentHash, known_leader
\* by X-Consul-KnownLeader, addr_translate_enabled by
\* X-Consul-Translate-Addresses, cache_hit by X-Cache, cache_age by Age, and
\* last_contact by none.
C9_AbsentIsDefault ==
    HeadersSeen =>
        LET h == response.val.headers IN
        /\ HeadersFailed =>
             \A n \in Range(Last(out).err.inner.headers) : IsSome(h[n])
        /\ h = NoHeaders =>
             /\ HeadersOk
             /\ HeadersMeta =
                  [last_index |-> None, last_content_hash |-> None,
                   known_leader |-> FALSE, last_contact |-> Duration(0, 0),
                   addr_translate_enabled |-> FALSE, cache_hit |-> FALSE,
                   cache_age |-> None]
        /\ HeadersOk =>
             LET m == HeadersMeta IN
             /\ IsSome(m.last_index) <=> IsSome(h["X-Consul-Index"])
             /\ IsSome(m.last_index) =>
                  U64ToString(m.last_index.val) =
                     (IF DecimalDigits(h["X-Consul-Index"].val) = <<>> THEN <<"0">>
                      ELSE DecimalDigits(h["X-Consul-Index"].val))
             /\ m.last_content_hash = h["X-Consul-ContentHash"]
             /\ m.known_leader <=> h["X-Consul-KnownLeader"] = Some(S_true)
             /\ m.addr_translate_enabled <=>
                  h["X-Consul-Translate-Addresses"] = Some(S_true)
             /\ m.cache_hit <=>
                  (IsSome(h["X-Cache"]) /\ ToLowercase(h["X-Cache"].val) = S_hit)
             /\ IsSome(m.cache_age) <=> IsSome(h["Age"])
             /\ IsSome(m.cache_age) =>
                  /\ m.cache_age.val.nanos = 0
                  /\ U64ToString(m.cache_age.val.secs) =
                       (IF DecimalDigits(h["Age"].val) = <<>> THEN <<"0">>
                        ELSE DecimalDigits(h["Age"].val))
             /\ m.last_contact = Duration(0, 0)

\* C9 witness: a response without any consumed header gave the default metadata
C9_Witness ==
    /\ HeadersSeen
    /\ response.val.headers = NoHeaders
    /\ pc = "body"
    /\ meta = Some(QueryMetadataDefault)

\* C9, second case: only Age was present; only cache_age left its default
C9_WitnessOneHeader ==
    /\ HeadersSeen
    /\ response.val.headers = [NoHeaders EXCEPT !["Age"] = Some(S_7)]
    /\ pc = "body"
    /\ meta = Some([QueryMetadataDefault EXCEPT
                      !.cache_age = Some(Duration(<<7, 0, 0, 0>>, 0))])


TimedOutErr == [kind |-> "RequestTimedOut"]
RequestErr == [kind |-> "RequestError"]

\* C10: run_request races its one transport call against the timeout the
\* options give: when the timer ends the wait the result is RequestTimedOut
\* (never RequestError) and that is what the caller gets; when the transport
\* fails first it is RequestError; when it answers first it is the response;
\* and without options, or without a timeout in them, RequestTimedOut is
\* never produced.
C10_TimeoutRace ==
    /\ IsSome(race) =>
         LET r == race.val IN
         /\ Len(sent) >= 1
         /\ r.event = "Elapsed" =>
              /\ r.result = Err(TimedOutErr)
              /\ IsSome(r.timeout)
              /\ Last(out) = ErrItem(TimedOutErr)
         /\ r.event = "HyperError" =>
              /\ r.result = Err(RequestErr)
              /\ Last(out) = ErrItem(RequestErr)
         /\ r.event = "Response" => r.result = Ok(response.val)
         /\ r.timeout = (IF IsSome(args) THEN args.val.timeout ELSE None)
    /\ \A i \in DOMAIN out :
         (out[i].kind = "Err" /\ out[i].err = TimedOutErr) =>
            (IsSome(args) /\ IsSome(args.val.timeout))

\* C10 witness: a timeout was set, the timer ended the wait and the caller
\* got RequestTimedOut
C10_Witness ==
    /\ IsSome(race)
    /\ race.val.event = "Elapsed"
    /\ race.val.timeout = Some(Duration(5, 0))
    /\ out # <<>>
    /\ Last(out) = ErrItem(TimedOutErr)


\* the X-Cache header of the response is there and reads as v in lower case
XCacheIs(h, v) == IsSome(h["X-Cache"]) /\ ToLowercase(h["X-Cache"].val) = v

\* C11: cache_hit is true if and only if X-Cache is present and its value,
\* compared without regard to case, is the literal `hit`; every other value
\* that reads as text (`true` among them) leaves cache_hit false and is not
\* an error; only a value that does not read as text is reported.
C11_CacheHitLiteral ==
    HeadersSeen =>
        LET h == response.val.headers IN
        /\ HeadersOk => (HeadersMeta.cache_hit <=> XCacheIs(h, S_hit))
        /\ HeadersFailed =>
             ("X-Cache" \in Range(Last(out).err.inner.headers)
                <=> (IsSome(h["X-Cache"]) /\ ~IsAsciiText(h["X-Cache"].val)))
        /\ (BadHeaders(h) = {} /\ XCacheIs(h, S_true)) =>
             (HeadersOk /\ ~HeadersMeta.cache_hit)

\* C11 as stated: cache_hit is true if and only if X-Cache is present and its
\* value, compared without regard to case, is the literal `true`.
C11_CacheHitIsTrue ==
    (HeadersSeen /\ HeadersOk) =>
        (HeadersMeta.cache_hit <=> XCacheIs(response.val.headers, S_true))

\* C11 witness: X-Cache: HIT was received and cache_hit is set
C11_Witness ==
    /\ HeadersSeen
    /\ response.val.headers = [NoHeaders EXCEPT !["X-Cache"] = Some(S_HIT)]
    /\ pc = "body"
    /\ meta.val.cache_hit

\* C11, second case: X-Cache: true was received and cache_hit stays false
C11_WitnessTrue ==
    /\ HeadersSeen
    /\ response.val.headers = [NoHeaders EXCEPT !["X-Cache"] = Some(S_true)]
    /\ pc = "body"
    /\ ~meta.val.cache_hit


\* the payloads a body can decode to
Payloads == {b.json.val : b \in {x \in Bodies : x.read /\ x.json.ok}}

C12_WitnessPrefixed ==
    /\ call = "get" /\ args = None /\ base_uri = BasePrefixed
    /\ pc = "returned"
    /\ Len(sent[1].request.path) = 5
    /\ sent[1].request.path[1] = S_consul
    /\ out[1].kind = "Ok"


\* the call was made on an endpoint that cannot be a base and has been polled
NonBasePolled == ~base_uri.hier /\ pulls >= 1

\* C13: on an endpoint that cannot be a base, build_request returns the
\* invalid-endpoint error value: nothing is sent, the call does not panic, the
\* caller gets the error, and a watch ends with it as its one item.
C13_NonBaseIsError ==
    NonBasePolled =>
        /\ sent = <<>>
        /\ pc # "panicked"
        /\ Len(out) = 1
        /\ out[1].kind = "Err"
        /\ out[1].err.kind \in {"InvalidEndpoint", "InvalidConsulEndpoint"}
        /\ call = "watch" => pc \in {"finished", "done"}

\* C13, what the code does: the first poll unwinds; nothing is sent and the
\* caller is given nothing, no error value either.
C13_NonBasePanics ==
    NonBasePolled => (pc = "panicked" /\ sent = <<>> /\ out = <<>> /\ request = None)


\* the call's options project a header whose value the transport does not
\* accept (the token has a newline), the endpoint is fine, and it was polled
BadHeaderPolled ==
    /\ base_uri.hier
    /\ pulls >= 1
    /\ \E i \in DOMAIN Option_header_pairs(options) :
          \E j \in DOMAIN Option_header_pairs(options)[i][2] :
             Option_header_pairs(options)[i][2][j] = "<LF>"

\* C14: with a projected header value that is not a valid header value,
\* build_request returns the InvalidRequest error value: the call does not
\* panic, nothing is sent (the header is not dropped or cut to make a
\* request), and the caller gets the error.
C14_BadHeaderValueIsError ==
    BadHeaderPolled =>
        /\ pc # "panicked"
        /\ sent = <<>>
        /\ Len(out) = 1
        /\ out[1] = ErrItem([kind |-> "InvalidRequest"])

\* C14, what the code does: the first poll unwinds; no request is made from
\* the options, with or without the header, and no error value is given.
C14_BadHeaderValuePanics ==
    BadHeaderPolled => (pc = "panicked" /\ sent = <<>> /\ out = <<>> /\ request = None)


\* the one pair of key k among pairs is (k, v) when o is Some(v), and there
\* is none when o is None
OnePairIff(pairs, k, o) ==
    ValuesOf(pairs, k) = (IF IsSome(o) THEN <<<<k, o.val>>>> ELSE <<>>)

\* C15: WriteOptions project only ns, dc and relay-factor into the query,
\* each present exactly when its field is set and with the field's value,
\* only X-Consul-Token into the headers, present exactly when the token is
\* set, and their timeout is the timeout field; nothing about blocking,
\* consistency or the cache is ever projected, into the request either.
C15_WriteOptionsProjection ==
    call = "write" =>
        /\ \A k \in 1..Len(sent) :
             IF ~IsSome(sent[k].options)
             THEN ProjectedPairs(k) = <<>> /\ ProjectedHeaders(k) = <<>>
             ELSE LET w == sent[k].options.val
                      q == ProjectedPairs(k)
                      hd == ProjectedHeaders(k)
                      req == sent[k].request
                  IN  /\ Keys(q) \subseteq {"ns", "dc", "relay-factor"}
                      /\ OnePairIff(q, "ns", w.namespace)
                      /\ OnePairIff(q, "dc", w.datacenter)
                      /\ Len(ValuesOf(q, "relay-factor")) =
                            (IF IsSome(w.relay_factor) THEN 1 ELSE 0)
                      /\ IsSome(w.relay_factor) =>
                            ParseU64(ValuesOf(q, "relay-factor")[1][2])
                               = Ok(U64OfNat(w.relay_factor.val))
                      /\ Keys(hd) \subseteq {"X-Consul-Token"}
                      /\ OnePairIff(hd, "X-Consul-Token", w.token)
                      /\ req.headers = hd
                      /\ Keys(req.query) \subseteq {"ns", "dc", "relay-factor"}
                      /\ \A i \in DOMAIN q : q[i] \in Range(req.query)
        /\ IsSome(race) =>
             race.val.timeout = (IF IsSome(args) THEN args.val.timeout ELSE None)

\* C15 witness: every field is set; ns, dc, relay-factor and the token are
\* on the request and the timer was armed with the timeout field
C15_Witness ==
    /\ call = "write"
    /\ base_uri = BasePlain
    /\ args = Some([namespace |-> Some(S_a), datacenter |-> Some(S_west),
                    token |-> Some(S_tok), relay_factor |-> Some(255),
                    timeout |-> Some(Duration(5, 0))])
    /\ Len(sent) = 1
    /\ sent[1].request.query =
         <<<<"ns", S_a>>, <<"dc", S_west>>, <<"relay-factor", <<"2", "5", "5">>>>>>
    /\ sent[1].request.headers = <<<<"X-Consul-Token", S_tok>>>>
    /\ IsSome(race) /\ race.val.event = "Elapsed"
    /\ race.val.timeout = Some(Duration(5, 0))


\* s has p at position i
HasAt(s, p, i) ==
    i + Len(p) - 1 <= Len(s) /\ \A j \in DOMAIN p : s[i + j - 1] = p[j]

\* the Cache-Control values of request k, and whether one has a component
\* that starts with p
CacheControlOf(k) == ValuesOf(sent[k].request.headers, "Cache-Control")
HasComponent(k, p) ==
    \E n \in DOMAIN CacheControlOf(k) :
       LET v == CacheControlOf(k)[n][2]
       IN  \E i \in DOMAIN v :
              HasAt(v, p, i) /\ (i = 1 \/ (i > 2 /\ HasAt(v, <<",", " ">>, i - 2)))

\* the options request k was built from allow caching
EligibleSent(k) ==
    /\ IsSome(sent[k].options)
    /\ sent[k].options.val.use_cache
    /\ sent[k].options.val.consistency # Some("Consistent")

\* a duration is set and longer than nothing
IsPositive(d) == IsSome(d) /\ (d.val.secs > 0 \/ d.val.nanos > 0)

\* C16: when caching is eligible, Cache-Control has a max-age component
\* exactly when cache_max_age is set and strictly positive, a stale-if-error
\* component exactly when cache_stale_if_error is set and strictly positive
\* (a positive duration below one second counts), the header is there
\* exactly when a component is, and there is at most one such header.
C16_PositiveDurations ==
    \A k \in 1..Len(sent) :
        EligibleSent(k) =>
            LET o == sent[k].options.val IN
            /\ HasComponent(k, S_max_age_eq) <=> IsPositive(o.cache_max_age)
            /\ HasComponent(k, S_stale_if_error_eq) <=> IsPositive(o.cache_stale_if_error)
            /\ Len(CacheControlOf(k)) =
                 (IF IsPositive(o.cache_max_age) \/ IsPositive(o.cache_stale_if_error)
                  THEN 1 ELSE 0)

\* C16, what the code does: a component is there exactly when its duration
\* is at least one whole second, with the whole seconds as its value; the
\* header is there exactly when a component is, at most once, its value the
\* components joined by ", ".
C16_WholeSeconds ==
    \A k \in 1..Len(sent) :
        EligibleSent(k) =>
            LET o == sent[k].options.val
                ma == IsSome(o.cache_max_age) /\ o.cache_max_age.val.secs >= 1
                se == IsSome(o.cache_stale_if_error)
                        /\ o.cache_stale_if_error.val.secs >= 1
            IN  /\ HasComponent(k, S_max_age_eq) <=> ma
                /\ HasComponent(k, S_stale_if_error_eq) <=> se
                /\ Len(CacheControlOf(k)) = (IF ma \/ se THEN 1 ELSE 0)
                /\ (o.cache_max_age = Some(Duration(30, 0))
                      /\ o.cache_stale_if_error = Some(Duration(2, 0))) =>
                     CacheControlOf(k)[1][2] =
                        S_max_age_eq \o <<"3", "0", ",", " ">>
                           \o S_stale_if_error_eq \o <<"2">>


\* a request of the watch is with the transport, or its response is being read
InFlight == pc \in {"inflight", "body"}

\* C17: a watch has at most one request in flight and never runs ahead of
\* its consumer: the requests issued never outnumber the consumer's polls;
\* every request but one in flight has given its one item; a request is
\* issued only by a poll, one per poll, when every earlier request has handed
\* its item to the consumer; and while a request is in flight, or after it
\* failed, none is issued (no second request, no retry).
C17_NoRunAhead ==
    /\ [](call = "watch" =>
            /\ Len(sent) <= pulls
            /\ Len(sent) - Len(out) = (IF InFlight THEN 1 ELSE 0))
    /\ [][(call = "watch" /\ sent' # sent) =>
            /\ pc \in {"created", "suspended"}
            /\ pulls' = pulls + 1
            /\ Len(sent') = Len(sent) + 1
            /\ Len(out) = Len(sent)
            /\ \A i \in DOMAIN out : out[i].kind = "Ok"]_vars
    /\ [][(call = "watch" /\ (InFlight \/ pc \in {"finished", "done"})) =>
            sent' = sent]_vars

\* C17 witness: the consumer has polled three times; two items are out and
\* the third request is in flight
C17_Witness ==
    /\ call = "watch"
    /\ pulls = 3
    /\ Len(sent) = 3
    /\ pc = "inflight"
    /\ Len(out) = 2
    /\ out[1].kind = "Ok" /\ out[2].kind = "Ok"


Dropped == pc = "dropped"

\* C18: dropping the stream of a watch, at any point, stops the engine: the
\* drop itself sends nothing and emits nothing, it abandons the request in
\* flight, and after it no request is issued and no item is produced, the
\* item of the abandoned request included.
C18_DropStops ==
    /\ [][Dropped => (pc' = "dropped" /\ sent' = sent /\ out' = out
                         /\ request' = None)]_vars
    /\ [][(~Dropped /\ pc' = "dropped") =>
            (sent' = sent /\ out' = out /\ request' = None /\ pulls' = pulls)]_vars
    /\ [](Dropped =>
            /\ call = "watch"
            /\ request = None
            /\ Len(sent) - Len(out) \in {0, 1}
            /\ Len(sent) <= pulls)

\* C18 witness: the stream was dropped with its second request in flight;
\* that request has no item
C18_Witness ==
    /\ Dropped
    /\ Len(sent) = 2
    /\ Len(out) = 1
    /\ out[1].kind = "Ok"

\* C18, the other points of a drop: before the first poll, and between items
C18_WitnessBeforePoll == Dropped /\ pulls = 0 /\ sent = <<>> /\ out = <<>>
C18_WitnessBetweenItems ==
    Dropped /\ Len(sent) = 2 /\ Len(out) = 2 /\ out[2].kind = "Ok" /\ pulls = 2


\* the options the caller gave the watch, or the default ones
CallerOptions == IF IsSome(args) THEN args.val ELSE QueryOptionsDefault

\* the pairs of a query that are not about the blocking condition (the wait
\* goes with the condition: it is projected only when one is set)
FramePairs(q) == SelectSeq(q, LAMBDA p : p[1] \notin {"index", "hash", "wait"})

\* C19: every request of a watch is built from the caller's options with
\* only the blocking field changed: every other field is the caller's on
\* every iteration, so the method, the path, the headers and every query
\* pair not about blocking are the same on every request; and a blocking
\* condition the caller put in the options is replaced by the engine's own,
\* so the first request has none.
C19_OnlyBlockingChanges ==
    call = "watch" =>
        \A k \in 1..Len(sent) :
            LET o == sent[k].options.val IN
            /\ IsSome(sent[k].options)
            /\ DOMAIN o = DOMAIN CallerOptions
            /\ \A f \in DOMAIN o \ {"blocking"} : o[f] = CallerOptions[f]
            /\ k = 1 =>
                 /\ o.blocking = None
                 /\ CondPairs(sent[k].request.query) = <<>>
            /\ sent[k].request.method = sent[1].request.method
            /\ sent[k].request.path = sent[1].request.path
            /\ sent[k].request.headers = sent[1].request.headers
            /\ Range(FramePairs(sent[k].request.query))
                 = Range(FramePairs(sent[1].request.query))
            /\ Len(FramePairs(sent[k].request.query))
                 = Len(FramePairs(sent[1].request.query))

\* C19 witness: the caller set every field, a condition Hash(abc) too; the
\* first request has no condition, the second the one of the first response,
\* and the other fields are the caller's on both
C19_Witness ==
    /\ call = "watch"
    /\ IsSome(args)
    /\ args.val.blocking = Some(Hash(S_abc))
    /\ args.val.near = Some(S_west)
    /\ Len(sent) = 2
    /\ sent[1].options.val.blocking = None
    /\ sent[2].options.val.blocking = Some(Index(<<2, 0, 0, 0>>))
    /\ sent[2].options.val.near = Some(S_west)
    /\ sent[2].options.val.cache_max_age = Some(Duration(30, 0))
    /\ <<"near", S_west>> \in Range(sent[2].request.query)


\* the node_meta entries of the options request k was built from
NodeMetaOf(k) ==
    IF IsSome(sent[k].options) /\ IsSome(sent[k].options.val.node_meta)
    THEN sent[k].options.val.node_meta.val ELSE <<>>

\* the node-meta[] parameters of request k
NodeMetaSent(k) == ValuesOf(sent[k].request.query, "node-meta[]")

\* C20: every node_meta entry reaches the wire: a request built from options
\* whose node_meta has n entries carries exactly n node-meta[] parameters,
\* one key:value for each entry, for every n >= 0.
C20_NodeMetaAllSent ==
    \A k \in 1..Len(sent) :
        /\ Len(NodeMetaSent(k)) = Len(NodeMetaOf(k))
        /\ \A i \in DOMAIN NodeMetaOf(k) :
             <<"node-meta[]", NodeMetaOf(k)[i][1] \o <<":">> \o NodeMetaOf(k)[i][2]>>
                \in Range(NodeMetaSent(k))

\* C20, what the code does: the options project one pair per entry, but the
\* request carries at most one node-meta[] parameter, for the entry the map
\* gave last.
C20_NodeMetaOneSent ==
    \A k \in 1..Len(sent) :
        LET e == NodeMetaOf(k) IN
        /\ Len(ValuesOf(ProjectedPairs(k), "node-meta[]")) = Len(e)
        /\ NodeMetaSent(k) =
             (IF e = <<>> THEN <<>>
              ELSE <<<<"node-meta[]", Last(e)[1] \o <<":">> \o Last(e)[2]>>>>)


\* request k has a parameter of key key
HasParam(k, key) == key \in Keys(sent[k].request.query)

\* C21: every request built carries at most one blocking condition: never
\* both an `index` and a `hash` parameter, and neither of them twice, also
\* when the endpoint's own query has an `index` or a `hash` and when the
\* condition of a watch changes from Index to Hash or back.
C21_AtMostOneCondition ==
    \A k \in 1..Len(sent) :
        /\ ~(HasParam(k, "index") /\ HasParam(k, "hash"))
        /\ Len(CondPairs(sent[k].request.query)) <= 1

\* C21, what the code keeps: the options project at most one of the two,
\* and on an endpoint with neither of them in its own query the request has
\* what the options project, whatever the last request carried.
C21_OneConditionProjected ==
    \A k \in 1..Len(sent) :
        /\ Len(CondPairs(ProjectedPairs(k))) <= 1
        /\ CondPairs(base_uri.query) = <<>> =>
             CondPairs(sent[k].request.query) = CondPairs(ProjectedPairs(k))

\* C21, what the code does on an endpoint with one of them: the endpoint's
\* parameter stays on every request, next to the other one when the options
\* project that
C21_EndpointConditionStays ==
    \A k \in 1..Len(sent) :
        \A i \in DOMAIN base_uri.query :
            (base_uri.query[i][1] \in {"index", "hash"}
               /\ base_uri.query[i][1] \notin Keys(ProjectedPairs(k)))
            => base_uri.query[i] \in Range(sent[k].request.query)


\* the wait values the model's blocking timeouts have to give
WaitText(d) ==
    IF d = Duration(1, 500000000) THEN <<"1", "5", "0", "0", "m", "s">>
    ELSE IF d = Duration(0, 1999999) THEN <<"1", "m", "s">>
    ELSE <<"?">>

C23_OverallTimeoutOnly ==
    /\ IsSome(race) =>
         LET r == race.val IN
         /\ r.timeout = CallerOptions.timeout
         /\ IsSome(args) => r.timeout = args.val.timeout
         /\ r.event = "Elapsed" =>
              /\ IsSome(CallerOptions.timeout)
              /\ out # <<>>
              /\ Last(out) = ErrItem(TimedOutErr)
              /\ Len(out) = Len(sent)
              /\ call = "watch" => pc \in {"finished", "done"}
              /\ call = "get" => pc = "returned"
    /\ pc = "inflight" =>
         (TimerArmed(options) <=> IsSome(CallerOptions.timeout))

\* C23 witness: a watch with timeout 5 s and blocking timeout 1.5 s; its
\* second request, a blocking one, was held beyond the timeout and the
\* stream ended with the timeout error
C23_Witness ==
    /\ call = "watch"
    /\ IsSome(args)
    /\ args.val.timeout = Some(Duration(5, 0))
    /\ args.val.blocking_timeout = Some(Duration(1, 500000000))
    /\ Len(sent) = 2
    /\ HasParam(2, "index") /\ HasParam(2, "wait")
    /\ IsSome(race) /\ race.val.event = "Elapsed"
    /\ race.val.timeout = Some(Duration(5, 0))
    /\ Len(out) = 2 /\ out[1].kind = "Ok" /\ out[2] = ErrItem(TimedOutErr)
    /\ pc = "finished"


\* the last thing that happened to the call is a response whose head
\* parse_query_response has looked at
ResponseParsed ==
    /\ IsSome(race) /\ race.val.event = "Response"
    /\ IsSome(response)
    /\ pc \notin {"created", "inflight"}

ResponseErrItem(e) == ErrItem([kind |-> "ResponseError", inner |-> e])

\* the call is over: a one-shot call has returned, a watch has ended
CallOver == IF call = "watch" THEN pc \in {"finished", "done"} ELSE pc = "returned"

\* C24: parse_query_response reports the first stage that fails, in the
\* order status, headers, body read, JSON decode: a status that is not 2xx
\* gives the status error with that code whatever the headers are, and the
\* body is not read; else malformed headers give the malformed-headers error
\* and the body is not read; else a body that cannot be read gives the read
\* error, whatever it would decode to; else a body that does not decode gives
\* the payload error; payload and metadata are returned only when all four
\* succeed.  The error ends the call, a watch too.
C24_FirstFailingStage ==
    /\ ResponseParsed =>
         LET resp == response.val IN
         IF resp.status < 200 \/ resp.status > 299
         THEN /\ Last(out) = ResponseErrItem([kind |-> "UnexpectedStatus",
                                              status |-> resp.status])
              /\ CallOver
         ELSE IF BadHeaders(resp.headers) # {}
         THEN /\ Last(out).kind = "Err"
              /\ Last(out).err.kind = "ResponseError"
              /\ Last(out).err.inner.kind = "InvalidHeaders"
              /\ Range(Last(out).err.inner.headers) = BadHeaders(resp.headers)
              /\ CallOver
         ELSE \/ pc = "body" /\ Ok(meta.val) = from_headers(resp.headers)
              \/ /\ Last(out).kind = "Ok"
                 /\ Last(out).parsed \in Payloads
                 /\ Ok(Last(out).meta) = from_headers(resp.headers)
                 /\ ~CallOver \/ call = "get"
              \/ /\ Last(out) \in {ResponseErrItem([kind |-> "BodyConsumeFailure"]),
                                   ResponseErrItem([kind |-> "InvalidPayload"])}
                 /\ CallOver
    /\ pc = "body" =>
         \A b \in Bodies \cup {[read |-> FALSE, json |-> Ok("nodes")]} :
            LET r == parse_query_response_body(b, meta.val) IN
            /\ ~b.read => r = Err([kind |-> "BodyConsumeFailure"])
            /\ (b.read /\ ~b.json.ok) => r = Err([kind |-> "InvalidPayload"])
            /\ (b.read /\ b.json.ok) => r = Ok(<<b.json.val, meta.val>>)
    /\ \A i \in DOMAIN out : out[i].kind = "Err" => i = Len(out)

\* C24 witness: the second response of a watch had status 404 and two
\* malformed headers; the watch ended with the status error
C24_Witness ==
    /\ call = "watch"
    /\ Len(sent) = 2
    /\ response = Some([status |-> 404,
                        headers |-> [NoHeaders EXCEPT
                                        !["X-Consul-Index"] = Some(S_u64_over),
                                        !["Age"] = Some(S_not_a_number)]])
    /\ out[1].kind = "Ok"
    /\ out[2] = ResponseErrItem([kind |-> "UnexpectedStatus", status |-> 404])
    /\ pc = "finished"


\* header name of the response is there and reads as text
ReadableHeader(h, name) == IsSome(h[name]) /\ IsAsciiText(h[name].val)

\* C25: known_leader and addr_translate_enabled are true exactly when
\* X-Consul-KnownLeader, respectively X-Consul-Translate-Addresses, is
\* present with the value `true`, letter for letter; any other value that
\* reads as text (`True`, `false`, `1`) leaves the field false and is not
\* reported as malformed.
C25_ExactTrue ==
    HeadersSeen =>
        LET h == response.val.headers
            ld == h["X-Consul-KnownLeader"]
            tr == h["X-Consul-Translate-Addresses"]
        IN  /\ HeadersOk =>
                 /\ HeadersMeta.known_leader <=> ld = Some(<<"t", "r", "u", "e">>)
                 /\ HeadersMeta.addr_translate_enabled
                       <=> tr = Some(<<"t", "r", "u", "e">>)
            /\ HeadersFailed =>
                 \A n \in {"X-Consul-KnownLeader", "X-Consul-Translate-Addresses"} :
                    ReadableHeader(h, n) => n \notin Range(Last(out).err.inner.headers)
            /\ (BadHeaders(h) = {} /\ ld \in {Some(S_True), Some(S_1)}) =>
                 (HeadersOk /\ ~HeadersMeta.known_leader)
            /\ (BadHeaders(h) = {} /\ tr \in {Some(S_True), Some(S_false)}) =>
                 (HeadersOk /\ ~HeadersMeta.addr_translate_enabled)

\* C25 witness: X-Consul-KnownLeader: True and
\* X-Consul-Translate-Addresses: true were received; only the second field
\* is set and nothing is malformed
C25_Witness ==
    /\ HeadersSeen
    /\ response.val.headers =
         [NoHeaders EXCEPT !["X-Consul-KnownLeader"] = Some(S_True),
                           !["X-Consul-Translate-Addresses"] = Some(S_true)]
    /\ pc = "body"
    /\ ~meta.val.known_leader
    /\ meta.val.addr_translate_enabled


\* what call c holds: its options, its carried condition, where it is, and
\* what it has sent and delivered
OwnState(c) ==
    <<options[c], blocking[c], pc[c], request[c], response[c], meta[c], out[c],
      pulls[c], sent[c]>>

\* the condition the k-th request of a watch carries, from the items that
\* watch itself has delivered
ExpectedCondIn(items, k) ==
    IF k = 1 THEN None
    ELSE LET m == items[k - 1].meta IN
         IF IsSome(m.last_content_hash) THEN Some(Hash(m.last_content_hash.val))
         ELSE IF IsSome(m.last_index) THEN Some(Index(m.last_index.val))
         ELSE None

\* every request of call c is the one its own options and its own earlier
\* responses give
OwnRequests(c) ==
    \A k \in 1..Len(sent[c]) :
        LET opts == IF call[c] = "watch"
                    THEN Some([OrDefault(args[c]).val EXCEPT
                                 !.blocking = ExpectedCondIn(out[c], k)])
                    ELSE args[c]
        IN  /\ sent[c][k].options = opts
            /\ sent[c][k].request
                 = build_request(base_uri, MethodOf(call[c]), ServicePath(S_web),
                                 opts).val

\* the condition a suspended watch carries is the one of its own last item
OwnCondition(c) ==
    /\ call[c] = "get" => blocking[c] = None
    /\ pc[c] = "suspended" =>
         blocking[c] = ExpectedCondIn(out[c], Len(out[c]) + 1)
    /\ pc[c] \in {"created", "inflight", "body", "finished", "done"} =>
         blocking[c] = None

\* C26: calls made concurrently on one client are independent: under every
\* interleaving each watch starts with no carried condition and sends the
\* requests its own options and its own responses give, a step of one call
\* (one-shot or watch) changes nothing another call holds, and a watch that
\* has ended is not taken up again whatever is called later.
C26_CallsIndependent ==
    /\ [](\A c \in Calls : OwnRequests(c) /\ OwnCondition(c))
    /\ [][\A c \in Calls :
            /\ (\E d \in Calls \ {c} : OwnState(d)' # OwnState(d))
                 => OwnState(c)' = OwnState(c)
            /\ pc[c] \in {"finished", "done"} =>
                 /\ pc'[c] \in {"finished", "done"}
                 /\ sent'[c] = sent[c]
                 /\ out'[c] = out[c]
                 /\ blocking'[c] = blocking[c]]_vars

\* watch a stands suspended, carrying the hash of its item and having asked
\* with the caller's index before; call b, a watch with no options, has its
\* first request in flight with no condition on it
C26_Witness ==
    /\ call["a"] = "watch" /\ call["b"] = "watch"
    /\ IsSome(args["a"]) /\ args["b"] = None
    /\ Len(sent["a"]) = 2 /\ pc["a"] = "suspended"
    /\ blocking["a"] = Some(Hash(S_deadbeef))
    /\ Len(out["a"]) = 2
    /\ pc["b"] = "inflight" /\ Len(sent["b"]) = 1
    /\ CondPairs(sent["b"][1].request.query) = <<>>

\* a watch has ended in an error and the other call, a one-shot, is made
\* after that and returns its result
C26_WitnessEnded ==
    /\ call["a"] = "watch" /\ call["b"] = "get"
    /\ pc["a"] \in {"finished", "done"}
    /\ Len(out["a"]) = 2 /\ Last(out["a"]).kind = "Err"
    /\ pc["b"] = "returned" /\ Last(out["b"]).kind = "Ok"
    /\ IsSome(args["a"]) /\ IsSome(args["b"])


\* one call is the one-shot call and the other a watch, made with the same
\* options, which hold no blocking condition, and each has sent a request
SameCallTwice ==
    /\ call["a"] = "get" /\ call["b"] = "watch"
    /\ args["a"] = args["b"]
    /\ OrDefault(args["a"]).val.blocking = None
    /\ Len(sent["a"]) >= 1 /\ Len(sent["b"]) >= 1

\* C27 as stated: the request of the one-shot call and the first request of
\* the watch are identical in method, path, query parameters and headers.
C27_SameFirstRequest ==
    SameCallTwice =>
        LET g == sent["a"][1].request
            w == sent["b"][1].request
        IN  /\ g.method = w.method
            /\ g.path = w.path
            /\ Range(g.query) = Range(w.query) /\ Len(g.query) = Len(w.query)
            /\ g.headers = w.headers

\* what the code keeps: the two requests have the same path, the same query
\* parameters and the same headers, and given the same response the first
\* item of the watch is the result of the one-shot call
C27_SameButMethod ==
    SameCallTwice =>
        LET g == sent["a"][1].request
            w == sent["b"][1].request
        IN  /\ g.path = w.path
            /\ Range(g.query) = Range(w.query) /\ Len(g.query) = Len(w.query)
            /\ g.headers = w.headers
            /\ g.method = "get" /\ w.method = "GET"
            /\ (/\ Len(sent["b"]) = 1
                /\ response["a"] = response["b"]
                /\ IsSome(response["a"])
                /\ pc["a"] = "returned"
                /\ pc["b"] \in {"suspended", "finished"})
                 => out["a"][1] = out["b"][1]

\* both calls, made with every option but the blocking condition set, have
\* delivered a first item for the same response
C27_WitnessSameItem ==
    /\ SameCallTwice
    /\ IsSome(args["a"])
    /\ Len(sent["b"]) = 1
    /\ response["a"] = response["b"] /\ IsSome(response["a"])
    /\ pc["a"] = "returned" /\ pc["b"] = "suspended"
    /\ out["a"][1].kind = "Ok"
    /\ Len(sent["a"][1].request.query) > 3

=============================================================================
